---- MODULE Spec2Model ----
(***************************************************************************)
(* Model of the password-encrypted keystore of my-solana-wallet: the two   *)
(* ciphers (Node crypto and Web Crypto), the file-backed wallet library,   *)
(* the command-line front ends that call it, and the browser wallet kept   *)
(* in localStorage.                                                        *)
(*                                                                         *)
(* Strings are sequences of UTF-16 code units, as in JavaScript.  UTF-8    *)
(* text is a sequence of numbers 0..255.  The bytes of a blob are records: *)
(* [raw |-> n] for a byte whose value is known (salt, IV) and symbolic     *)
(* records for AES-GCM ciphertext and tag bytes.                           *)
(***************************************************************************)
EXTENDS Integers, Sequences, FiniteSets, TLC

\* ------------------------------------------------------------------------
\* Bounds of the model
\* ------------------------------------------------------------------------
MaxTextLen == 2        \* longest plaintext handed to the cipher on its own
MaxRand == 1           \* number of distinct values the random source yields
MaxKeys == 3           \* keypairs Keypair.generate() can hand out in one run
MaxOps == 2            \* operations started in one run of the keystore
MaxCalls == 3          \* encrypt calls in one run of the cipher's random source
MaxRegOps == 3         \* registry calls made in one run
MaxImports == 2        \* imports of a vault made in one run
MaxMembers == 2        \* members in the form of a new vault
MaxIndex == 22         \* transaction index of a vault
MaxAccounts == 3       \* accounts owned by the multisig program
MaxUiOps == 4          \* handlers started in one run of the built-in wallet UI
MaxPending == 2        \* awaits of the built-in wallet UI pending at once

\* ------------------------------------------------------------------------
\* Program constants
\* ------------------------------------------------------------------------
SALT_LENGTH == 16
IV_LENGTH == 12
TAG_LENGTH == 16
MIN_PASSWORD_LENGTH == 8

IsHighSurrogate(c) == c >= 55296 /\ c <= 56319
IsLowSurrogate(c) == c >= 56320 /\ c <= 57343

\* UTF-8 bytes of one code point
EncodeCodePoint(cp) ==
  IF cp < 128 THEN <<cp>>
  ELSE IF cp < 2048 THEN <<192 + (cp \div 64), 128 + (cp % 64)>>
  ELSE IF cp < 65536
    THEN <<224 + (cp \div 4096), 128 + ((cp \div 64) % 64), 128 + (cp % 64)>>
  ELSE <<240 + (cp \div 262144), 128 + ((cp \div 4096) % 64),
         128 + ((cp \div 64) % 64), 128 + (cp % 64)>>

\* string -> UTF-8 bytes, as Buffer.from(s, 'utf8') and TextEncoder.encode
\* do it: a surrogate pair is one code point, an unpaired surrogate is
\* replaced by U+FFFD.
RECURSIVE Utf8Encode(_)
Utf8Encode(s) ==
  IF s = <<>> THEN <<>>
  ELSE LET c == Head(s) IN
    IF IsHighSurrogate(c) /\ Len(s) >= 2 /\ IsLowSurrogate(s[2])
      THEN EncodeCodePoint(65536 + (c - 55296) * 1024 + (s[2] - 56320))
           \o Utf8Encode(SubSeq(s, 3, Len(s)))
    ELSE IF IsHighSurrogate(c) \/ IsLowSurrogate(c)
      THEN EncodeCodePoint(65533) \o Utf8Encode(Tail(s))
    ELSE EncodeCodePoint(c) \o Utf8Encode(Tail(s))

\* code units of one code point
CodeUnitsOf(cp) ==
  IF cp < 65536 THEN <<cp>>
  ELSE <<55296 + ((cp - 65536) \div 1024), 56320 + ((cp - 65536) % 1024)>>

IsCont(b, i) == i <= Len(b) /\ b[i] >= 128 /\ b[i] < 192

\* UTF-8 bytes -> string, keeping a leading byte order mark, as
\* Buffer.toString('utf8') does; a malformed sequence yields U+FFFD.
RECURSIVE Utf8Decode(_)
Utf8Decode(b) ==
  IF b = <<>> THEN <<>>
  ELSE LET x == b[1] IN
    IF x < 128 THEN <<x>> \o Utf8Decode(Tail(b))
    ELSE IF x >= 192 /\ x < 224 /\ IsCont(b, 2)
      THEN CodeUnitsOf((x - 192) * 64 + (b[2] - 128))
           \o Utf8Decode(SubSeq(b, 3, Len(b)))
    ELSE IF x >= 224 /\ x < 240 /\ IsCont(b, 2) /\ IsCont(b, 3)
      THEN CodeUnitsOf((x - 224) * 4096 + (b[2] - 128) * 64 + (b[3] - 128))
           \o Utf8Decode(SubSeq(b, 4, Len(b)))
    ELSE IF x >= 240 /\ x < 248 /\ IsCont(b, 2) /\ IsCont(b, 3) /\ IsCont(b, 4)
      THEN CodeUnitsOf((x - 240) * 262144 + (b[2] - 128) * 4096
                       + (b[3] - 128) * 64 + (b[4] - 128))
           \o Utf8Decode(SubSeq(b, 5, Len(b)))
    ELSE <<65533>> \o Utf8Decode(Tail(b))

\* new TextDecoder().decode(bytes): ignoreBOM is false, so one leading
\* U+FEFF is dropped from the result.
TextDecoderDecode(b) ==
  LET s == Utf8Decode(b) IN
  IF s # <<>> /\ Head(s) = 65279 THEN Tail(s) ELSE s

\* ------------------------------------------------------------------------
\* PBKDF2 and AES-256-GCM, as ideal primitives
\* ------------------------------------------------------------------------
\* The derived key is determined by the password's UTF-8 bytes and the salt.
deriveKey(password, salt) == [pw |-> Utf8Encode(password), salt |-> salt]

\* Counter-mode ciphertext: one symbolic byte per plaintext byte; the first
\* one carries the key and IV the key stream was made from.
GcmEncrypt(key, iv, data) ==
  [i \in 1..Len(data) |->
     IF i = 1 THEN [k |-> key, iv |-> iv, pos |-> i, b |-> data[i]]
              ELSE [pos |-> i, b |-> data[i]]]

\* The 16-byte authentication tag over (key, iv, ciphertext): its first
\* symbolic byte carries the value the tag is computed from, the other
\* fifteen their position.
GcmTag(key, iv, ct) ==
  [i \in 1..TAG_LENGTH |->
     IF i = 1 THEN [mac |-> <<key, iv, ct>>, pos |-> i] ELSE [tag |-> i]]

\* decipher.final(): the plaintext bytes when the tag verifies
GcmPlain(ct) == [i \in 1..Len(ct) |-> ct[i].b]

\* base64 is a bijection between byte strings and their encodings
ToBase64(bytes) == [b64 |-> bytes]
FromBase64(str) == str.b64

\* the values the random source can return for an n-byte request
RandomBytes(n) == {[i \in 1..n |-> [raw |-> f]] : f \in 0..(MaxRand - 1)}

Ok(v) == [ok |-> TRUE, value |-> v]
Fail(e) == [ok |-> FALSE, error |-> e]

\* ------------------------------------------------------------------------
\* Node cipher: salt + iv + authTag + ciphertext
\* ------------------------------------------------------------------------
encrypt(data, password, salt, iv) ==
  LET key == deriveKey(password, salt)
      encrypted == GcmEncrypt(key, iv, Utf8Encode(data))
      authTag == GcmTag(key, iv, encrypted)
  IN ToBase64(salt \o iv \o authTag \o encrypted)

decrypt(encryptedData, password) ==
  LET combined == FromBase64(encryptedData)
      salt == SubSeq(combined, 1, SALT_LENGTH)
      iv == SubSeq(combined, SALT_LENGTH + 1, SALT_LENGTH + IV_LENGTH)
      authTag == SubSeq(combined, SALT_LENGTH + IV_LENGTH + 1,
                        SALT_LENGTH + IV_LENGTH + TAG_LENGTH)
      ciphertext == SubSeq(combined, SALT_LENGTH + IV_LENGTH + TAG_LENGTH + 1,
                           Len(combined))
      key == deriveKey(password, salt)
  IN IF authTag = GcmTag(key, iv, ciphertext)
       THEN Ok(Utf8Decode(GcmPlain(ciphertext)))
       ELSE Fail("AuthTagMismatch")

\* ------------------------------------------------------------------------
\* Browser cipher: salt + iv + (ciphertext with the tag appended)
\* ------------------------------------------------------------------------
webEncrypt(data, password, salt, iv) ==
  LET key == deriveKey(password, salt)
      body == GcmEncrypt(key, iv, Utf8Encode(data))
      ciphertext == body \o GcmTag(key, iv, body)
  IN ToBase64(salt \o iv \o ciphertext)

webDecrypt(encryptedData, password) ==
  LET combined == FromBase64(encryptedData)
      salt == SubSeq(combined, 1, SALT_LENGTH)
      iv == SubSeq(combined, SALT_LENGTH + 1, SALT_LENGTH + IV_LENGTH)
      ciphertext == SubSeq(combined, SALT_LENGTH + IV_LENGTH + 1, Len(combined))
      key == deriveKey(password, salt)
      body == SubSeq(ciphertext, 1, Len(ciphertext) - TAG_LENGTH)
      tag == SubSeq(ciphertext, Len(ciphertext) - TAG_LENGTH + 1, Len(ciphertext))
  IN IF Len(ciphertext) >= TAG_LENGTH /\ tag = GcmTag(key, iv, body)
       THEN Ok(TextDecoderDecode(GcmPlain(body)))
       ELSE Fail("OperationError")

\* ------------------------------------------------------------------------
\* The ciphers on their own: one encrypt call followed by one decrypt call
\* ------------------------------------------------------------------------
VARIABLES
  ciph,          \* the cipher calls made on their own
  walletFile,    \* the file FileStorage keeps for WALLET_KEY
  indexFile,     \* _index.json: the set of keys
  backups,       \* wallet-backup-*.json files
  procs,         \* the running calls and commands
  nextKey,       \* number of keypairs generated so far
  opsStarted,    \* number of operations started so far
  last,          \* the call or command that ended last, with what it returned
  createdWith,   \* history: the password of the create that wrote walletFile
  web,           \* the browser wallet: localStorage and the component's state
  fresh,         \* the encrypt calls made in a row, with the bytes each drew
  reg,           \* the vault registry: what is stored and the calls in flight
  ext,           \* extractVaultAddress: the last input and what was returned
  imp,           \* import of a vault: what is stored and the last import made
  cre,           \* creation of a vault: the form being edited and the last attempt
  vot,           \* proposals: the account on chain, what was fetched of it, the last vote asked for
  act,           \* acting on a vault: the chain, what a page loaded of it, the last operation
  lst,           \* getProposals: the vault index, the proposals that fail to load, the listing
  dis,           \* discovery: the accounts of the program and the last scan made
  dsh,           \* the dashboard of the external wallet: the stored list, the scan in flight, what the user removed
  bui            \* the built-in wallet UI with its awaits: the stored item, the view, what is still awaited

\* the variables of the parts that are no keystore
extVars == <<fresh, reg, ext, imp, cre, vot, act, lst, dis, dsh, bui>>

vars == <<ciph, walletFile, indexFile, backups, procs, nextKey, opsStarted, last,
          createdWith, web, extVars>>
storeVars == <<walletFile, indexFile, backups, procs, nextKey, opsStarted, last,
               createdWith, web, extVars>>
keystoreVars == <<ciph, walletFile, indexFile, backups, procs, nextKey, opsStarted,
                  last, createdWith, web>>

\* what the steps of one part leave alone: everything but that part
notFresh == <<keystoreVars, reg, ext, imp, cre, vot, act, lst, dis, dsh, bui>>
notReg == <<keystoreVars, fresh, ext, imp, cre, vot, act, lst, dis, dsh, bui>>
notExt == <<keystoreVars, fresh, reg, imp, cre, vot, act, lst, dis, dsh, bui>>
notImp == <<keystoreVars, fresh, reg, ext, cre, vot, act, lst, dis, dsh, bui>>
notCre == <<keystoreVars, fresh, reg, ext, imp, vot, act, lst, dis, dsh, bui>>
notVot == <<keystoreVars, fresh, reg, ext, imp, cre, act, lst, dis, dsh, bui>>
notAct == <<keystoreVars, fresh, reg, ext, imp, cre, vot, lst, dis, dsh, bui>>
notLst == <<keystoreVars, fresh, reg, ext, imp, cre, vot, act, dis, dsh, bui>>
notDis == <<keystoreVars, fresh, reg, ext, imp, cre, vot, act, lst, dsh, bui>>
notDsh == <<keystoreVars, fresh, reg, ext, imp, cre, vot, act, lst, dis, bui>>
notBui == <<keystoreVars, fresh, reg, ext, imp, cre, vot, act, lst, dis, dsh>>

\* code units plaintexts are made of: 'a', U+FEFF, an unpaired high and an
\* unpaired low surrogate (together a pair), U+FFFD
TextUnits == {97, 65279, 55296, 56320, 65533}
PasswordUnits == {97, 55296, 65533}

StringsUpTo(units, n) == UNION {[1..k -> units] : k \in 0..n}

PlainTexts == StringsUpTo(TextUnits, MaxTextLen)
CipherPasswords == StringsUpTo(PasswordUnits, 1)

NoBlob == ToBase64(<<>>)
NoResult == [ok |-> FALSE, error |-> "none", value |-> <<>>]

CipherInputs ==
  {[pc |-> "start", impl |-> "none", M |-> m, P |-> p, Q |-> <<>>,
    blob |-> NoBlob, out |-> NoResult] :
   m \in PlainTexts, p \in CipherPasswords}

CipherEncrypt ==
  /\ ciph.pc = "start"
  /\ \E salt \in RandomBytes(SALT_LENGTH), iv \in RandomBytes(IV_LENGTH) :
       ciph' = [ciph EXCEPT !.pc = "encrypted", !.impl = "node",
                            !.blob = encrypt(ciph.M, ciph.P, salt, iv)]
  /\ UNCHANGED storeVars

CipherWebEncrypt ==
  /\ ciph.pc = "start"
  /\ \E salt \in RandomBytes(SALT_LENGTH), iv \in RandomBytes(IV_LENGTH) :
       ciph' = [ciph EXCEPT !.pc = "encrypted", !.impl = "web",
                            !.blob = webEncrypt(ciph.M, ciph.P, salt, iv)]
  /\ UNCHANGED storeVars

Result(r) ==
  IF r.ok THEN [ok |-> TRUE, error |-> "none", value |-> r.value]
          ELSE [ok |-> FALSE, error |-> r.error, value |-> <<>>]

CipherDecrypt ==
  /\ ciph.pc = "encrypted" /\ ciph.impl = "node"
  /\ \E q \in CipherPasswords :
       ciph' = [ciph EXCEPT !.pc = "done", !.Q = q,
                            !.out = Result(decrypt(ciph.blob, q))]
  /\ UNCHANGED storeVars

CipherWebDecrypt ==
  /\ ciph.pc = "encrypted" /\ ciph.impl = "web"
  /\ \E q \in CipherPasswords :
       ciph' = [ciph EXCEPT !.pc = "done", !.Q = q,
                            !.out = Result(webDecrypt(ciph.blob, q))]
  /\ UNCHANGED storeVars

CipherNext == CipherEncrypt \/ CipherWebEncrypt \/ CipherDecrypt \/ CipherWebDecrypt

\* ------------------------------------------------------------------------
\* Values the keystore works with
\* ------------------------------------------------------------------------
Rep(c, n) == [i \in 1..n |-> c]

\* display names: "w"
Names == {<<119>>}

\* passwords: "", one too short by a character, and two of the minimum
\* length, one ending in U+FFFD and one ending in an unpaired U+D800
Passwords ==
  {<<>>, Rep(97, MIN_PASSWORD_LENGTH - 1),
   Rep(97, MIN_PASSWORD_LENGTH - 1) \o <<65533>>,
   Rep(97, MIN_PASSWORD_LENGTH - 1) \o <<55296>>}

KeyIds == 1..MaxKeys

\* Keypair.generate(): the k-th keypair's secret key, a private part
\* followed by the public part (shortened to one byte each)
SecretKeyBytes(k) == <<k, 100 + k>>
PublicKeyBytes(k) == <<100 + k>>

ALPHABET ==
  <<49, 50, 51, 52, 53, 54, 55, 56, 57, 65, 66, 67, 68, 69, 70, 71, 72, 74,
    75, 76, 77, 78, 80, 81, 82, 83, 84, 85, 86, 87, 88, 89, 90, 97, 98, 99,
    100, 101, 102, 103, 104, 105, 106, 107, 109, 110, 111, 112, 113, 114,
    115, 116, 117, 118, 119, 120, 121, 122>>

RECURSIVE BytesToNum(_, _)
BytesToNum(bytes, num) ==
  IF bytes = <<>> THEN num
  ELSE BytesToNum(Tail(bytes), num * 256 + Head(bytes))

RECURSIVE Base58Digits(_)
Base58Digits(num) ==
  IF num > 0 THEN Base58Digits(num \div 58) \o <<ALPHABET[(num % 58) + 1]>>
  ELSE <<>>

RECURSIVE LeadingZeros(_)
LeadingZeros(bytes) ==
  IF bytes # <<>> /\ Head(bytes) = 0 THEN 1 + LeadingZeros(Tail(bytes)) ELSE 0

secretKeyToBase58(secretKey) ==
  Rep(49, LeadingZeros(secretKey)) \o Base58Digits(BytesToNum(secretKey, 0))

\* keypair.publicKey.toBase58()
PublicKeyBase58(k) == secretKeyToBase58(PublicKeyBytes(k))

RECURSIVE Digits(_)
Digits(n) == IF n < 10 THEN <<48 + n>> ELSE Digits(n \div 10) \o <<48 + (n % 10)>>

RECURSIVE JoinNumbers(_)
JoinNumbers(nums) ==
  IF nums = <<>> THEN <<>>
  ELSE IF Len(nums) = 1 THEN Digits(nums[1])
  ELSE Digits(nums[1]) \o <<44>> \o JoinNumbers(Tail(nums))

\* JSON.stringify(Array.from(bytes))
JsonStringify(nums) == <<91>> \o JoinNumbers(nums) \o <<93>>

RECURSIVE ParseNumbers(_, _, _, _, _)
ParseNumbers(s, i, cur, started, acc) ==
  IF i > Len(s) THEN Fail("SyntaxError")
  ELSE LET c == s[i] IN
    IF c >= 48 /\ c <= 57
      THEN ParseNumbers(s, i + 1, cur * 10 + (c - 48), TRUE, acc)
    ELSE IF c = 44 /\ started
      THEN ParseNumbers(s, i + 1, 0, FALSE, Append(acc, cur))
    ELSE IF c = 93 /\ i = Len(s) /\ started THEN Ok(Append(acc, cur))
    ELSE IF c = 93 /\ i = Len(s) /\ acc = <<>> THEN Ok(<<>>)
    ELSE Fail("SyntaxError")

\* JSON.parse(text) as number[]; a text that is no array of numbers makes
\* JSON.parse or the Keypair constructor after it throw.
JsonParse(s) ==
  IF Len(s) >= 2 /\ s[1] = 91 THEN ParseNumbers(s, 2, 0, FALSE, <<>>)
  ELSE Fail("SyntaxError")

\* Keypair.fromSecretKey(bytes): throws unless the bytes are a secret key
KeypairFromSecretKey(bytes) ==
  IF \E k \in KeyIds : bytes = SecretKeyBytes(k)
    THEN Ok(CHOOSE k \in KeyIds : bytes = SecretKeyBytes(k))
    ELSE Fail("bad secret key")

\* ------------------------------------------------------------------------
\* State of the file-backed keystore and of the processes that use it
\* ------------------------------------------------------------------------
WALLET_KEY == "solana_wallet"

NoFile == [exists |-> FALSE, name |-> <<>>, publicKey |-> <<>>,
           encryptedSecretKey |-> NoBlob]

WalletData(name, publicKey, encryptedSecretKey) ==
  [exists |-> TRUE, name |-> name, publicKey |-> publicKey,
   encryptedSecretKey |-> encryptedSecretKey]

Procs == {"p1", "p2"}

Library == {"createWallet", "unlockWallet", "getKeypair", "deleteWallet"}
Commands == {"cmdCreate", "cmdUnlock", "cmdDelete", "cmdBackup", "cmdStatus",
             "cmdAddress"}

NoRes == [fn |-> "none", ok |-> FALSE, error |-> "none", exists |-> FALSE,
          address |-> <<>>, secretKey |-> <<>>]
NoOut == [written |-> FALSE, success |-> FALSE, code |-> "none",
          exists |-> FALSE, address |-> <<>>, secretKey |-> <<>>,
          warning |-> FALSE]

IdleProc == [entry |-> "idle", pc |-> "idle", name |-> <<>>, password |-> <<>>,
             flag |-> FALSE, idx |-> {}, seen |-> <<>>, res |-> NoRes,
             out |-> NoOut]

\* ------------------------------------------------------------------------
\* Results, errors and command output
\* ------------------------------------------------------------------------
ErrorCode(err) ==
  CASE err = "NoWalletError" -> "NO_WALLET"
    [] err = "InvalidPasswordError" -> "INVALID_PASSWORD"
    [] err = "WalletExistsError" -> "WALLET_EXISTS"
    [] err = "WeakPasswordError" -> "WEAK_PASSWORD"
    [] OTHER -> "none"

\* the error classes the catch block of each command reports with a code
Caught(entry) ==
  CASE entry = "cmdCreate" -> {"WalletExistsError", "WeakPasswordError"}
    [] entry = "cmdUnlock" -> {"NoWalletError", "InvalidPasswordError"}
    [] entry = "cmdDelete" -> {"NoWalletError"}
    [] entry = "cmdBackup" -> {"NoWalletError", "InvalidPasswordError"}
    [] entry = "cmdAddress" -> {"NoWalletError"}
    [] OTHER -> {}

ErrRes(fn, err) == [NoRes EXCEPT !.fn = fn, !.error = err]
OkRes(fn, address, secretKey) ==
  [NoRes EXCEPT !.fn = fn, !.ok = TRUE, !.exists = TRUE, !.address = address,
                !.secretKey = secretKey]

\* console.error(JSON.stringify({success: false, code?, error}))
ErrOut(code) == [NoOut EXCEPT !.written = TRUE, !.code = code]
\* console.log(JSON.stringify({success: true, ...}))
OkOut(address) ==
  [NoOut EXCEPT !.written = TRUE, !.success = TRUE, !.exists = TRUE,
                !.address = address]

Finish(pr, res, out) == [pr EXCEPT !.pc = "done", !.res = res, !.out = out]

\* fn throws err: a library call ends with the exception, a command's catch
\* block prints it
Throw(pr, fn, err) ==
  Finish(pr, ErrRes(fn, err),
         IF pr.entry \in Commands
           THEN ErrOut(IF err \in Caught(pr.entry) THEN ErrorCode(err) ELSE "none")
           ELSE NoOut)

\* ------------------------------------------------------------------------
\* wallet.ts
\* ------------------------------------------------------------------------
\* the try block of unlockWallet and getKeypair: decrypt, parse, rebuild
DecodeSecret(encryptedSecretKey, password) ==
  LET secretKeyJson == decrypt(encryptedSecretKey, password) IN
  IF ~secretKeyJson.ok THEN Fail("decrypt")
  ELSE LET secretKeyArray == JsonParse(secretKeyJson.value) IN
    IF ~secretKeyArray.ok THEN Fail("parse")
    ELSE LET keypair == KeypairFromSecretKey(secretKeyArray.value) IN
      IF ~keypair.ok THEN Fail("keypair")
      ELSE Ok(keypair.value)

unlockWallet(walletData, password) ==
  IF ~walletData.exists THEN ErrRes("unlockWallet", "NoWalletError")
  ELSE LET kp == DecodeSecret(walletData.encryptedSecretKey, password) IN
    IF kp.ok
      THEN OkRes("unlockWallet", PublicKeyBase58(kp.value),
                 secretKeyToBase58(SecretKeyBytes(kp.value)))
      ELSE ErrRes("unlockWallet", "InvalidPasswordError")

getKeypair(walletData, password) ==
  IF ~walletData.exists THEN ErrRes("getKeypair", "NoWalletError")
  ELSE LET kp == DecodeSecret(walletData.encryptedSecretKey, password) IN
    IF kp.ok
      THEN OkRes("getKeypair", PublicKeyBase58(kp.value),
                 secretKeyToBase58(SecretKeyBytes(kp.value)))
      ELSE ErrRes("getKeypair", "InvalidPasswordError")

\* the password check createWallet makes before it touches the storage
WeakPassword(password) == Len(password) < MIN_PASSWORD_LENGTH

\* the existence check createWallet makes on what storage.get returned
AlreadyExists_Never(existing) == FALSE
AlreadyExists(existing) == existing.exists

\* the record createWallet stores for keypair k
NewWalletData_Plain(name, password, k, salt, iv) ==
  WalletData(name, PublicKeyBase58(k),
             ToBase64([i \in 1..Len(Utf8Encode(JsonStringify(SecretKeyBytes(k)))) |->
                         [raw |-> Utf8Encode(JsonStringify(SecretKeyBytes(k)))[i]]]))
NewWalletData(name, password, k, salt, iv) ==
  WalletData(name, PublicKeyBase58(k),
             encrypt(JsonStringify(SecretKeyBytes(k)), password, salt, iv))

\* entering createWallet: the code that runs before its first await
InvokeCreateWallet(pr) ==
  IF WeakPassword(pr.password)
    THEN Throw(pr, "createWallet", "WeakPasswordError")
    ELSE [pr EXCEPT !.pc = "cw_get"]

\* FileStorage.set / FileStorage.remove on the index the instance loaded
IndexAfterSet(idx, onDisk) ==
  IF WALLET_KEY \notin idx THEN idx \cup {WALLET_KEY} ELSE onDisk
IndexAfterRemove(idx, onDisk) ==
  IF WALLET_KEY \in idx THEN idx \ {WALLET_KEY} ELSE onDisk

\* ------------------------------------------------------------------------
\* Starting an operation
\* ------------------------------------------------------------------------
\* A process that has ended is free again; of two free processes the first
\* one takes the next operation. A run is one of the file keystore or one of
\* the browser wallet: the two share no storage.
CanStart(p) ==
  /\ web.view = "off"
  /\ procs[p].pc = "idle"
  /\ opsStarted < MaxOps
  /\ p = "p1" \/ procs["p1"].pc # "idle"

\* p goes on as pr; an operation that has ended is recorded in last
Continue(p, pr) ==
  IF pr.pc = "done"
    THEN /\ procs' = [procs EXCEPT ![p] = IdleProc]
         /\ last' = [n |-> last.n + 1, entry |-> pr.entry,
                      password |-> pr.password, flag |-> pr.flag,
                      res |-> pr.res, out |-> pr.out]
    ELSE procs' = [procs EXCEPT ![p] = pr] /\ UNCHANGED last

Begin(p, pr) ==
  /\ Continue(p, pr)
  /\ opsStarted' = opsStarted + 1
  /\ UNCHANGED <<ciph, web, walletFile, indexFile, backups, nextKey, createdWith,
                 extVars>>

Call(entry, name, password, flag) ==
  [IdleProc EXCEPT !.entry = entry, !.name = name, !.password = password,
                   !.flag = flag]

StartCreateWallet(p) ==
  /\ CanStart(p)
  /\ \E name \in Names, password \in Passwords :
       Begin(p, InvokeCreateWallet(Call("createWallet", name, password, FALSE)))

StartUnlockWallet(p) ==
  /\ CanStart(p)
  /\ \E password \in Passwords :
       Begin(p, [Call("unlockWallet", <<>>, password, FALSE) EXCEPT !.pc = "uw_get"])

StartGetKeypair(p) ==
  /\ CanStart(p)
  /\ \E password \in Passwords :
       Begin(p, [Call("getKeypair", <<>>, password, FALSE) EXCEPT !.pc = "gk_get"])

StartDeleteWallet(p) ==
  /\ CanStart(p)
  /\ Begin(p, [Call("deleteWallet", <<>>, <<>>, FALSE) EXCEPT !.pc = "dw_get"])

\* create-wallet --name N --password P [--force]
StartCmdCreate(p) ==
  /\ CanStart(p)
  /\ \E name \in Names, password \in Passwords, force \in BOOLEAN :
       LET pr == Call("cmdCreate", name, password, force) IN
       Begin(p, IF name = <<>> \/ password = <<>>
                  THEN Finish(pr, NoRes, ErrOut("none"))
                  ELSE [pr EXCEPT !.pc = "cs_get"])

\* unlock-wallet --password P [--show-secret]
StartCmdUnlock(p) ==
  /\ CanStart(p)
  /\ \E password \in Passwords, showSecret \in BOOLEAN :
       LET pr == Call("cmdUnlock", <<>>, password, showSecret) IN
       Begin(p, IF password = <<>>
                  THEN Finish(pr, NoRes, ErrOut("none"))
                  ELSE [pr EXCEPT !.pc = "uw_get"])

\* delete-wallet [--confirm]
StartCmdDelete(p) ==
  /\ CanStart(p)
  /\ \E confirm \in BOOLEAN :
       LET pr == Call("cmdDelete", <<>>, <<>>, confirm) IN
       Begin(p, IF ~confirm
                  THEN Finish(pr, NoRes, ErrOut("none"))
                  ELSE [pr EXCEPT !.pc = "ga_get"])

\* backup-wallet --password P
StartCmdBackup(p) ==
  /\ CanStart(p)
  /\ \E password \in Passwords :
       LET pr == Call("cmdBackup", <<>>, password, FALSE) IN
       Begin(p, IF password = <<>>
                  THEN Finish(pr, NoRes, ErrOut("none"))
                  ELSE [pr EXCEPT !.pc = "cs_get"])

StartCmdStatus(p) ==
  /\ CanStart(p)
  /\ Begin(p, [Call("cmdStatus", <<>>, <<>>, FALSE) EXCEPT !.pc = "cs_get"])

StartCmdAddress(p) ==
  /\ CanStart(p)
  /\ Begin(p, [Call("cmdAddress", <<>>, <<>>, FALSE) EXCEPT !.pc = "ga_get"])

\* ------------------------------------------------------------------------
\* The steps that read or write the storage
\* ------------------------------------------------------------------------
Step(p, pr) ==
  /\ Continue(p, pr)
  /\ UNCHANGED <<ciph, web, opsStarted, extVars>>

\* checkStatus(): storage.get, then the caller's next lines
CheckStatusGet(p) ==
  LET pr == procs[p] IN
  /\ pr.pc = "cs_get"
  /\ Step(p,
       CASE pr.entry = "cmdStatus" ->
              Finish(pr, NoRes,
                     IF walletFile.exists
                       THEN OkOut(walletFile.publicKey)
                       ELSE [OkOut(<<>>) EXCEPT !.exists = FALSE])
         [] pr.entry = "cmdCreate" ->
              IF walletFile.exists
                THEN IF ~pr.flag
                       THEN Finish(pr, NoRes,
                                   [ErrOut("WALLET_EXISTS") EXCEPT
                                      !.address = walletFile.publicKey])
                       ELSE [pr EXCEPT !.pc = "dw_get",
                                       !.seen = walletFile.publicKey]
                ELSE InvokeCreateWallet(pr)
         [] OTHER ->  \* cmdBackup
              IF ~walletFile.exists
                THEN Throw(pr, "checkStatus", "NoWalletError")
                ELSE [pr EXCEPT !.pc = "uw_get"])
  /\ UNCHANGED <<walletFile, indexFile, backups, nextKey, createdWith>>

\* getAddress(): storage.get, then the caller's next lines
GetAddressGet(p) ==
  LET pr == procs[p] IN
  /\ pr.pc = "ga_get"
  /\ Step(p,
       IF ~walletFile.exists THEN Throw(pr, "getAddress", "NoWalletError")
       ELSE IF pr.entry = "cmdAddress"
         THEN Finish(pr, OkRes("getAddress", walletFile.publicKey, <<>>),
                     OkOut(walletFile.publicKey))
         ELSE [pr EXCEPT !.pc = "dw_get", !.seen = walletFile.publicKey])
  /\ UNCHANGED <<walletFile, indexFile, backups, nextKey, createdWith>>

\* deleteWallet(), first half: storage.get
DeleteWalletGet(p) ==
  LET pr == procs[p] IN
  /\ pr.pc = "dw_get"
  /\ Step(p,
       IF ~walletFile.exists THEN Throw(pr, "deleteWallet", "NoWalletError")
       ELSE [pr EXCEPT !.pc = "dw_remove", !.idx = indexFile])
  /\ UNCHANGED <<walletFile, indexFile, backups, nextKey, createdWith>>

\* what deleteWallet's storage.remove leaves in the wallet file
RemovedFile_Kept(file) == file
RemovedFile(file) == NoFile

\* deleteWallet(), second half: storage.remove, then the caller's next lines
DeleteWalletRemove(p) ==
  LET pr == procs[p] IN
  /\ pr.pc = "dw_remove"
  /\ walletFile' = RemovedFile(walletFile)
  /\ indexFile' = IndexAfterRemove(pr.idx, indexFile)
  /\ createdWith' = IF walletFile'.exists THEN createdWith ELSE <<>>
  /\ Step(p,
       CASE pr.entry = "cmdCreate" -> InvokeCreateWallet(pr)
         [] pr.entry = "cmdDelete" ->
              Finish(pr, OkRes("deleteWallet", <<>>, <<>>),
                     [OkOut(pr.seen) EXCEPT !.exists = FALSE])
         [] OTHER -> Finish(pr, OkRes("deleteWallet", <<>>, <<>>), NoOut))
  /\ UNCHANGED <<backups, nextKey>>

\* createWallet(), first half: storage.get and the existence check
CreateWalletGet(p) ==
  LET pr == procs[p] IN
  /\ pr.pc = "cw_get"
  /\ Step(p,
       IF AlreadyExists(walletFile)
         THEN Throw(pr, "createWallet", "WalletExistsError")
         ELSE [pr EXCEPT !.pc = "cw_set", !.idx = indexFile])
  /\ UNCHANGED <<walletFile, indexFile, backups, nextKey, createdWith>>

\* createWallet(), second half: generate, encrypt, storage.set
CreateWalletSet(p) ==
  LET pr == procs[p]
      k == nextKey + 1
  IN
  /\ pr.pc = "cw_set"
  /\ nextKey < MaxKeys
  /\ nextKey' = k
  /\ \E salt \in RandomBytes(SALT_LENGTH), iv \in RandomBytes(IV_LENGTH) :
       walletFile' = NewWalletData(pr.name, pr.password, k, salt, iv)
  /\ indexFile' = IndexAfterSet(pr.idx, indexFile)
  /\ createdWith' = pr.password
  /\ Step(p,
       Finish(pr, OkRes("createWallet", PublicKeyBase58(k), <<>>),
              IF pr.entry = "cmdCreate" THEN OkOut(PublicKeyBase58(k))
                                        ELSE NoOut))
  /\ UNCHANGED backups

\* what the unlock command prints after unlockWallet returned
UnlockOutput_Always(result, showSecret) ==
  [OkOut(result.address) EXCEPT !.secretKey = result.secretKey, !.warning = TRUE]
UnlockOutput(result, showSecret) ==
  IF showSecret
    THEN [OkOut(result.address) EXCEPT !.secretKey = result.secretKey,
                                       !.warning = TRUE]
    ELSE OkOut(result.address)

\* unlockWallet(): storage.get, decrypt, then the caller's next lines
UnlockWalletGet(p) ==
  LET pr == procs[p]
      result == unlockWallet(walletFile, pr.password)
  IN
  /\ pr.pc = "uw_get"
  /\ Step(p,
       IF ~result.ok THEN Throw(pr, "unlockWallet", result.error)
       ELSE CASE pr.entry = "cmdUnlock" ->
                   Finish(pr, result, UnlockOutput(result, pr.flag))
              [] pr.entry = "cmdBackup" ->
                   [pr EXCEPT !.pc = "bk_copy", !.res = result]
              [] OTHER -> Finish(pr, result, NoOut))
  /\ UNCHANGED <<walletFile, indexFile, backups, nextKey, createdWith>>

\* getKeypair(): storage.get, decrypt
GetKeypairGet(p) ==
  LET pr == procs[p]
      result == getKeypair(walletFile, pr.password)
  IN
  /\ pr.pc = "gk_get"
  /\ Step(p, IF result.ok THEN Finish(pr, result, NoOut)
                          ELSE Throw(pr, "getKeypair", result.error))
  /\ UNCHANGED <<walletFile, indexFile, backups, nextKey, createdWith>>

\* the backup command's fs.copyFile and its output
BackupCopy(p) ==
  LET pr == procs[p] IN
  /\ pr.pc = "bk_copy"
  /\ backups' = IF walletFile.exists THEN backups \cup {walletFile} ELSE backups
  /\ Step(p,
       IF walletFile.exists
         THEN Finish(pr, pr.res,
                     [OkOut(pr.res.address) EXCEPT
                        !.secretKey = pr.res.secretKey, !.warning = TRUE])
         ELSE Finish(pr, pr.res, ErrOut("none")))
  /\ UNCHANGED <<walletFile, indexFile, nextKey, createdWith>>

\* ------------------------------------------------------------------------
\* The browser wallet: src/utils/wallet.ts and the handlers of BuiltinWalletApp
\* ------------------------------------------------------------------------
NoItem == [exists |-> FALSE, value |-> NoBlob]
Item(value) == [exists |-> TRUE, value |-> value]

\* JSON.stringify(keypairToWalletData(keypair)):
\* {"publicKey":"<base58>","secretKey":[n,...]}
JsonPublicKey == <<123, 34, 112, 117, 98, 108, 105, 99, 75, 101, 121, 34, 58, 34>>
JsonSecretKey == <<34, 44, 34, 115, 101, 99, 114, 101, 116, 75, 101, 121, 34, 58>>

keypairToWalletData(k) ==
  JsonPublicKey \o PublicKeyBase58(k) \o JsonSecretKey
    \o JsonStringify(SecretKeyBytes(k)) \o <<125>>

\* JSON.parse(decrypted).secretKey for a text of the shape saveWallet writes;
\* any other text makes JSON.parse or walletDataToKeypair throw
WalletDataSecretKey(s) ==
  LET n == Len(JsonPublicKey)
      quotes == {i \in (n + 1)..Len(s) : s[i] = 34}
  IN IF Len(s) < n \/ SubSeq(s, 1, n) # JsonPublicKey \/ quotes = {}
       THEN Fail("SyntaxError")
     ELSE LET q == CHOOSE i \in quotes : \A j \in quotes : i <= j
              m == Len(JsonSecretKey)
          IN IF /\ Len(s) >= q + m + 2
                /\ SubSeq(s, q, q + m - 1) = JsonSecretKey
                /\ s[Len(s)] = 125
               THEN JsonParse(SubSeq(s, q + m, Len(s) - 1))
               ELSE Fail("SyntaxError")

\* saveWallet: what it puts into localStorage
saveWallet(k, password, salt, iv) ==
  Item(webEncrypt(keypairToWalletData(k), password, salt, iv))

\* loadWallet on a stored item: the keypair, or the one error it throws
loadWallet(item, password) ==
  LET decrypted == webDecrypt(item.value, password) IN
  IF ~decrypted.ok THEN Fail("Invalid password or corrupted wallet data")
  ELSE LET secretKey == WalletDataSecretKey(decrypted.value) IN
    IF ~secretKey.ok THEN Fail("Invalid password or corrupted wallet data")
    ELSE LET keypair == KeypairFromSecretKey(secretKey.value) IN
      IF ~keypair.ok THEN Fail("Invalid password or corrupted wallet data")
      ELSE Ok(keypair.value)

\* no browser wallet in this run
Unmounted ==
  [item |-> NoItem, view |-> "off", keypair |-> 0, error |-> "",
   createdWith |-> <<>>, keys |-> 0, confirmed |-> FALSE]

\* the component after mounting on a browser whose localStorage holds item
Mounted(item, password, keys) ==
  [item |-> item, view |-> IF item.exists THEN "unlock" ELSE "create",
   keypair |-> 0, error |-> "", createdWith |-> password, keys |-> keys,
   confirmed |-> FALSE]

WebStep ==
  /\ opsStarted < MaxOps
  /\ opsStarted' = opsStarted + 1
  /\ UNCHANGED <<ciph, walletFile, indexFile, backups, procs, nextKey, last,
                 createdWith, extVars>>

HandleCreateWallet ==
  /\ web.view = "create"
  /\ WebStep
  /\ \E password \in Passwords, confirmPassword \in Passwords :
       IF Len(password) < 8
         THEN web' = [web EXCEPT !.error = "Password must be at least 8 characters"]
       ELSE IF password # confirmPassword
         THEN web' = [web EXCEPT !.error = "Passwords do not match"]
       ELSE /\ web.keys < MaxKeys
            /\ \E salt \in RandomBytes(SALT_LENGTH), iv \in RandomBytes(IV_LENGTH) :
                 web' = [web EXCEPT
                           !.item = saveWallet(web.keys + 1, password, salt, iv),
                           !.keypair = web.keys + 1, !.view = "wallet",
                           !.error = "", !.createdWith = password,
                           !.keys = web.keys + 1]

HandleUnlockWallet ==
  /\ web.view = "unlock"
  /\ WebStep
  /\ \E password \in Passwords :
       IF ~web.item.exists THEN web' = [web EXCEPT !.error = ""]
       ELSE LET loadedKeypair == loadWallet(web.item, password) IN
         IF loadedKeypair.ok
           THEN web' = [web EXCEPT !.keypair = loadedKeypair.value,
                                   !.view = "wallet", !.error = ""]
           ELSE web' = [web EXCEPT !.error = loadedKeypair.error]

HandleLock ==
  /\ web.view = "wallet"
  /\ WebStep
  /\ web' = [web EXCEPT !.keypair = 0, !.view = "unlock"]

\* confirm('Are you sure you want to delete this wallet? ...') as the
\* condition of handleDeleteWallet
DeleteConfirmed_Always(accepted) == TRUE
DeleteConfirmed(accepted) == accepted

\* handleDeleteWallet; confirmed keeps the answer given to its dialog
HandleDeleteWallet ==
  /\ web.view \in {"unlock", "wallet"}
  /\ WebStep
  /\ \E accepted \in BOOLEAN :
       IF DeleteConfirmed(accepted)
         THEN web' = [web EXCEPT !.item = NoItem, !.keypair = 0,
                                 !.view = "create", !.createdWith = <<>>,
                                 !.confirmed = accepted]
         ELSE web' = [web EXCEPT !.confirmed = accepted]

\* ------------------------------------------------------------------------
\* A wallet file put back by hand
\* ------------------------------------------------------------------------
\* texts that are not the JSON of a secret key: "a" and "[7]"
ForeignTexts == {<<97>>, JsonStringify(<<7>>)}

\* The wallet file is a plain JSON file the user is told to copy away and
\* back; FileStorage.get returns whatever file is at the wallet's path. Here
\* a file is put there whose blob was encrypted with a password but holds a
\* text that is no secret key.
RestoreWalletFile ==
  /\ opsStarted < MaxOps
  /\ \A p \in Procs : procs[p].pc = "idle"
  /\ \E name \in Names, password \in Passwords, text \in ForeignTexts,
        salt \in RandomBytes(SALT_LENGTH), iv \in RandomBytes(IV_LENGTH) :
       /\ walletFile' = WalletData(name, PublicKeyBase58(1),
                                   encrypt(text, password, salt, iv))
       /\ createdWith' = password
  /\ opsStarted' = opsStarted + 1
  /\ UNCHANGED <<ciph, web, indexFile, backups, procs, nextKey, last, extVars>>

\* ------------------------------------------------------------------------
\* encrypt called again and again on one random source
\* ------------------------------------------------------------------------
\* The d-th output of crypto.randomBytes / crypto.getRandomValues: a secure
\* random source returns, at every request, bytes it has not returned before.
DrawnBytes(n, d) == [i \in 1..n |-> [raw |-> d]]

FreshTexts == {<<>>, <<97>>}
FreshPasswords == {<<>>, <<97>>}

FreshOff == [calls |-> <<>>, draws |-> 0]

\* one encrypt call after d requests to the random source: its two requests
\* and the blob it returns
EncryptCall_Reused(data, password, d) ==
  [impl |-> "node", data |-> data, password |-> password,
   salt |-> DrawnBytes(SALT_LENGTH, 0), iv |-> DrawnBytes(IV_LENGTH, 0),
   blob |-> encrypt(data, password, DrawnBytes(SALT_LENGTH, 0),
                    DrawnBytes(IV_LENGTH, 0))]
EncryptCall(data, password, d) ==
  LET salt == DrawnBytes(SALT_LENGTH, d + 1)
      iv == DrawnBytes(IV_LENGTH, d + 2)
  IN [impl |-> "node", data |-> data, password |-> password,
      salt |-> salt, iv |-> iv, blob |-> encrypt(data, password, salt, iv)]

WebEncryptCall(data, password, d) ==
  LET salt == DrawnBytes(SALT_LENGTH, d + 1)
      iv == DrawnBytes(IV_LENGTH, d + 2)
  IN [impl |-> "web", data |-> data, password |-> password,
      salt |-> salt, iv |-> iv, blob |-> webEncrypt(data, password, salt, iv)]

FreshEncrypt ==
  /\ Len(fresh.calls) < MaxCalls
  /\ \E data \in FreshTexts, password \in FreshPasswords :
       fresh' = [calls |-> Append(fresh.calls,
                                  EncryptCall(data, password, fresh.draws)),
                 draws |-> fresh.draws + 2]
  /\ UNCHANGED notFresh

FreshWebEncrypt ==
  /\ Len(fresh.calls) < MaxCalls
  /\ \E data \in FreshTexts, password \in FreshPasswords :
       fresh' = [calls |-> Append(fresh.calls,
                                  WebEncryptCall(data, password, fresh.draws)),
                 draws |-> fresh.draws + 2]
  /\ UNCHANGED notFresh

\* ---------------------------------------------------------------------
\* The vault registry (skills/utils/multisig.ts): one JSON document,
\* owner -> list of {multisigPda, createKey}, kept in localStorage in the
\* browser and in wallet-data/multisigs.json under Node.

Owners == {"o1", "o2"}
VaultAddresses == {"v1", "v2"}
CreateKeys == {"k1", "k2"}
Platforms == {"browser", "node"}
Tasks == {"t1", "t2"}

StoredMultisig(v, k) == [multisigPda |-> v, createKey |-> k]

\* the document: for each owner either no property or a list
NoList == [has |-> FALSE, list |-> <<>>]
EmptyData == [o \in Owners |-> NoList]

\* isBrowser()
isBrowser(platform) == platform = "browser"

\* loadData: the parsed document ({} when nothing is stored yet)
loadData(stored) == stored

\* loadDataSync: the document in the browser, {} under Node
loadDataSync(platform, stored) ==
  IF isBrowser(platform) THEN stored ELSE EmptyData

\* saveDataSync: writes in the browser, does nothing under Node
saveDataSync(platform, stored, data) ==
  IF isBrowser(platform) THEN data ELSE stored

\* data[owner] || []
ListOf(data, o) == IF data[o].has THEN data[o].list ELSE <<>>

\* data[owner].some((m) => m.multisigPda === multisigPda)
Listed(data, o, v) ==
  \E i \in 1..Len(ListOf(data, o)) : ListOf(data, o)[i].multisigPda = v

\* the calls that change the registry
Register(api, o, v, k) ==
  [api |-> api, op |-> "register", owner |-> o, vault |-> v, createKey |-> k]
Remove(api, o, v) ==
  [api |-> api, op |-> "remove", owner |-> o, vault |-> v, createKey |-> ""]
NoMutation ==
  [api |-> "", op |-> "", owner |-> "", vault |-> "", createKey |-> ""]

Mutations(api) ==
  {Register(api, o, v, k) : o \in Owners, v \in VaultAddresses, k \in CreateKeys}
    \cup {Remove(api, o, v) : o \in Owners, v \in VaultAddresses}

\* saveMultisigAddress(Async): data[owner] = [] where missing, then the push
Pushed(data, o, v, k) ==
  [data EXCEPT ![o] = [has |-> TRUE,
                       list |-> Append(ListOf(data, o), StoredMultisig(v, k))]]

\* removeStoredMultisig(Async): the document after the filter
Filtered(data, o, v) ==
  IF data[o].has
    THEN [data EXCEPT ![o].list =
            SelectSeq(@, LAMBDA e : e.multisigPda # v)]
    ELSE data

\* whether the call goes on to save what it loaded and changed
Saves_Always(data, m) == TRUE
Saves(data, m) ==
  IF m.op = "register" THEN ~Listed(data, m.owner, m.vault)
                       ELSE data[m.owner].has

\* the document the call hands to saveData
Changed(data, m) ==
  IF m.op = "register" THEN Pushed(data, m.owner, m.vault, m.createKey)
                       ELSE Filtered(data, m.owner, m.vault)

\* a call of the sync API, start to end
SyncCall(platform, stored, m) ==
  LET data == loadDataSync(platform, stored)
  IN IF Saves(data, m) THEN saveDataSync(platform, stored, Changed(data, m))
                       ELSE stored

\* one call run alone from start to end
Apply(platform, data, m) ==
  IF m.api = "sync"
    THEN SyncCall(platform, data, m)
    ELSE IF Saves(loadData(data), m) THEN Changed(loadData(data), m) ELSE data

IdleTask == [pc |-> "idle", m |-> NoMutation, data |-> EmptyData]
NoBatch == [base |-> EmptyData, ops |-> <<>>]
RegOff ==
  [platform |-> "browser", stored |-> EmptyData,
   tasks |-> [t \in Tasks |-> IdleTask], batch |-> NoBatch, issued |-> 0]

AllIdle == \A t \in Tasks : reg.tasks[t].pc = "idle"

\* a call may be made while another is awaited; the calls made from one
\* quiet moment to the next are remembered with what was stored before them
CanIssue ==
  /\ reg.issued < MaxRegOps
  /\ AllIdle \/ Len(reg.batch.ops) < Cardinality(Tasks)

BatchWith(m) ==
  IF AllIdle THEN [base |-> reg.stored, ops |-> <<m>>]
             ELSE [reg.batch EXCEPT !.ops = Append(@, m)]

\* saveMultisigAddressAsync / removeStoredMultisigAsync is called: loadData
\* starts; in the browser it has read localStorage before the first await,
\* under Node the file is read later
IssueAsync(t) ==
  /\ CanIssue
  /\ reg.tasks[t].pc = "idle"
  /\ \E m \in Mutations("async") :
       reg' = [reg EXCEPT
                 !.tasks[t] = IF isBrowser(reg.platform)
                                THEN [pc |-> "cont", m |-> m,
                                      data |-> loadData(reg.stored)]
                                ELSE [pc |-> "read", m |-> m,
                                      data |-> EmptyData],
                 !.batch = BatchWith(m),
                 !.issued = @ + 1]
  /\ UNCHANGED notReg

\* Node: fs.readFile completes and the call goes on to the await in saveData
ReadFile(t) ==
  /\ reg.tasks[t].pc = "read"
  /\ LET m == reg.tasks[t].m
         data == loadData(reg.stored)
     IN reg' = [reg EXCEPT
                  !.tasks[t] = IF Saves(data, m)
                                 THEN [pc |-> "write", m |-> m,
                                       data |-> Changed(data, m)]
                                 ELSE IdleTask]
  /\ UNCHANGED notReg

\* Node: fs.writeFile replaces the file by the document the call holds
WriteFile(t) ==
  /\ reg.tasks[t].pc = "write"
  /\ reg' = [reg EXCEPT !.stored = reg.tasks[t].data,
                        !.tasks[t] = IdleTask]
  /\ UNCHANGED notReg

\* browser: the call goes on after `await loadData()` and, where it saves,
\* localStorage.setItem runs in the same turn
Continuation(t) ==
  /\ reg.tasks[t].pc = "cont"
  /\ LET m == reg.tasks[t].m
         data == reg.tasks[t].data
     IN reg' = [reg EXCEPT
                  !.stored = IF Saves(data, m) THEN Changed(data, m) ELSE @,
                  !.tasks[t] = IdleTask]
  /\ UNCHANGED notReg

\* saveMultisigAddress / removeStoredMultisig: one turn, nothing awaited
CallSync ==
  /\ CanIssue
  /\ \E m \in Mutations("sync") :
       reg' = [reg EXCEPT
                 !.stored = SyncCall(reg.platform, reg.stored, m),
                 !.batch = BatchWith(m),
                 !.issued = @ + 1]
  /\ UNCHANGED notReg

\* ---------------------------------------------------------------------
\* Share links and extractVaultAddress (import-vault.ts, MyVaults.tsx,
\* ExternalVaultDetail.tsx). Strings are sequences of UTF-16 code units.

\* the bounds of {32,44} in both patterns
MIN_ADDRESS_CHARS == 32
MAX_ADDRESS_CHARS == 44

\* [A-HJ-NP-Za-km-z1-9]
Base58Class ==
  (65..72) \cup (74..78) \cup (80..90) \cup (97..107) \cup (109..122)
    \cup (49..57)

\* what String.prototype.trim removes: white space and line terminators
WhiteSpace ==
  {9, 10, 11, 12, 13, 32, 160, 5760, 8232, 8233, 8239, 8287, 12288, 65279}
    \cup (8192..8202)

\* "/vault/" and "/proposal/"
VaultPath == <<47, 118, 97, 117, 108, 116, 47>>
ProposalPath == <<47, 112, 114, 111, 112, 111, 115, 97, 108, 47>>

\* proposalIndex.toString()
RECURSIVE DecimalDigits(_)
DecimalDigits(n) ==
  IF n < 10 THEN <<48 + n>> ELSE Append(DecimalDigits(n \div 10), 48 + (n % 10))

\* `${baseUrl}/vault/${multisigPda}`
getVaultShareLink(multisigPda, baseUrl) == baseUrl \o VaultPath \o multisigPda

\* `${baseUrl}/vault/${multisigPda}/proposal/${proposalIndex.toString()}`
getProposalShareLink(multisigPda, proposalIndex, baseUrl) ==
  baseUrl \o VaultPath \o multisigPda \o ProposalPath
    \o DecimalDigits(proposalIndex)

\* input.trim()
RECURSIVE TrimStart(_)
TrimStart(s) ==
  IF s # <<>> /\ Head(s) \in WhiteSpace THEN TrimStart(Tail(s)) ELSE s
RECURSIVE TrimEnd(_)
TrimEnd(s) ==
  IF s # <<>> /\ s[Len(s)] \in WhiteSpace
    THEN TrimEnd(SubSeq(s, 1, Len(s) - 1))
    ELSE s
Trim(s) == TrimEnd(TrimStart(s))

\* number of characters of the class from position j on, as far as the
\* quantifier {32,44} takes them
RECURSIVE ClassRun(_, _, _)
ClassRun(s, j, taken) ==
  IF taken < MAX_ADDRESS_CHARS /\ j <= Len(s) /\ s[j] \in Base58Class
    THEN ClassRun(s, j + 1, taken + 1)
    ELSE taken

\* /\/vault\/([A-HJ-NP-Za-km-z1-9]{32,44})/ matches starting at position i
VaultUrlMatchAt(s, i) ==
  /\ i + Len(VaultPath) - 1 <= Len(s)
  /\ SubSeq(s, i, i + Len(VaultPath) - 1) = VaultPath
  /\ ClassRun(s, i + Len(VaultPath), 0) >= MIN_ADDRESS_CHARS

\* /^[A-HJ-NP-Za-km-z1-9]{32,44}$/.test(s)
IsBareAddress(s) ==
  /\ Len(s) >= MIN_ADDRESS_CHARS
  /\ Len(s) <= MAX_ADDRESS_CHARS
  /\ \A i \in 1..Len(s) : s[i] \in Base58Class

NoAddress == [found |-> FALSE, address |-> <<>>]
Address(a) == [found |-> TRUE, address |-> a]

extractVaultAddress(input) ==
  LET trimmed == Trim(input)
      starts == {i \in 1..Len(trimmed) : VaultUrlMatchAt(trimmed, i)}
  IN IF starts # {}
       THEN LET i == CHOOSE k \in starts : \A l \in starts : k <= l
                from == i + Len(VaultPath)
            IN Address(SubSeq(trimmed, from,
                              from + ClassRun(trimmed, from, 0) - 1))
       ELSE IF IsBareAddress(trimmed) THEN Address(trimmed) ELSE NoAddress

\* inputs: what follows "/vault/" (or stands alone) is a run of '1's of a
\* length around the two bounds, a run with one '2', or a run with a
\* character outside the class ('0', 'l') at its end, start or middle
Segments ==
  {Rep(49, MIN_ADDRESS_CHARS - 1), Rep(49, MIN_ADDRESS_CHARS),
   Rep(49, MAX_ADDRESS_CHARS), Rep(49, MAX_ADDRESS_CHARS + 1),
   Append(Rep(49, MIN_ADDRESS_CHARS - 1), 50),
   Append(Rep(49, MIN_ADDRESS_CHARS), 48),
   <<48>> \o Rep(49, MIN_ADDRESS_CHARS),
   Rep(49, 20) \o <<108>> \o Rep(49, 20)}

\* "http://h"
BaseUrls == {<<104, 116, 116, 112, 58, 47, 47, 104>>}
ProposalIndexes == {0, 12}
Pads == {<<>>, <<32>>, <<10>>}
Forms == {"address", "vaultLink", "proposalLink"}

ExtractInputs ==
  [form : Forms, segment : Segments, baseUrl : BaseUrls,
   proposalIndex : ProposalIndexes, lead : Pads, trail : {<<>>, <<32>>}]

\* the string typed or passed for such an input
InputText(x) ==
  x.lead
    \o (CASE x.form = "address" -> x.segment
          [] x.form = "vaultLink" -> getVaultShareLink(x.segment, x.baseUrl)
          [] x.form = "proposalLink" ->
               getProposalShareLink(x.segment, x.proposalIndex, x.baseUrl))
    \o x.trail

FrontEnds == {"import-vault", "MyVaults", "ExternalVaults"}
NoInput ==
  [form |-> "", segment |-> <<>>, baseUrl |-> <<>>, proposalIndex |-> 0,
   lead |-> <<>>, trail |-> <<>>]
ExtractOff ==
  [called |-> FALSE, frontEnd |-> "", x |-> NoInput, input |-> <<>>,
   result |-> NoAddress]

ExtractCalled(frontEnd) ==
  /\ ~ext.called
  /\ \E x \in ExtractInputs :
       ext' = [called |-> TRUE, frontEnd |-> frontEnd, x |-> x,
               input |-> InputText(x),
               result |-> extractVaultAddress(InputText(x))]
  /\ UNCHANGED notExt

\* import-vault.ts
ExtractInImportVault == ExtractCalled("import-vault")
\* MyVaults.tsx
ExtractInMyVaults == ExtractCalled("MyVaults")
\* ExternalVaultDetail.tsx
ExtractInExternalVaults == ExtractCalled("ExternalVaults")

\* ---------------------------------------------------------------------
\* Import of a vault by address or link (import-vault.ts, MyVaults.tsx
\* handleImport, ExternalVaultDetail.tsx handleImportVault)

PUBLIC_KEY_LENGTH == 32

\* bs58 decoding, as far as `new PublicKey(text)` needs it: the number of
\* bytes the text decodes to (bytes kept least significant first)
RECURSIVE TimesBasePlus(_, _)
TimesBasePlus(bytes, carry) ==
  IF bytes = <<>>
    THEN IF carry = 0 THEN <<>>
         ELSE <<carry % 256>> \o TimesBasePlus(<<>>, carry \div 256)
    ELSE LET t == Head(bytes) * Len(ALPHABET) + carry
         IN <<t % 256>> \o TimesBasePlus(Tail(bytes), t \div 256)

AlphabetIndex(c) == (CHOOSE i \in 1..Len(ALPHABET) : ALPHABET[i] = c) - 1

RECURSIVE DecodedValue(_, _)
DecodedValue(text, bytes) ==
  IF text = <<>> THEN bytes
  ELSE DecodedValue(Tail(text), TimesBasePlus(bytes, AlphabetIndex(Head(text))))

RECURSIVE LeadingOnes(_)
LeadingOnes(text) ==
  IF text # <<>> /\ Head(text) = ALPHABET[1] THEN 1 + LeadingOnes(Tail(text))
  ELSE 0

DecodedLength(text) ==
  LeadingOnes(text)
    + Len(DecodedValue(SubSeq(text, LeadingOnes(text) + 1, Len(text)), <<>>))

\* new PublicKey(text) does not throw
IsPublicKeyInput(text) ==
  /\ \A i \in 1..Len(text) : text[i] \in Base58Class
  /\ DecodedLength(text) = PUBLIC_KEY_LENGTH

\* what getMultisigAccount returns: null, or the vault with its members
NoVault == [found |-> FALSE, createKey |-> "", members |-> {}]
Vault(k, members) == [found |-> TRUE, createKey |-> k, members |-> members]
Lookups ==
  {NoVault} \cup {Vault(k, members) : k \in CreateKeys, members \in SUBSET Owners}

\* the wallet address of the user, "" where there is no wallet
NoOwner == ""

ImportSegments ==
  {Rep(49, PUBLIC_KEY_LENGTH), Append(Rep(49, PUBLIC_KEY_LENGTH - 1), 50),
   Rep(49, MIN_ADDRESS_CHARS - 1), Rep(49, MAX_ADDRESS_CHARS),
   Rep(49, MAX_ADDRESS_CHARS + 1)}

ImportTexts ==
  {<<>>, <<32>>}
    \cup ImportSegments
    \cup {getVaultShareLink(seg, base) : seg \in ImportSegments, base \in BaseUrls}

\* the outcomes shown: the error codes of the command, the messages of the
\* two components
Imported == "imported"
AlreadyImported == "alreadyImported"
NotFoundOutcomes ==
  {"VAULT_NOT_FOUND", "Invalid multisig address or not found",
   "Could not find vault at this address"}
NotAMemberOutcomes ==
  {"NOT_A_MEMBER", "You are not a member of this multisig",
   "You are not a member of this vault"}

NoImport ==
  [frontEnd |-> "", owner |-> NoOwner, input |-> <<>>, lookup |-> NoVault,
   outcome |-> "", before |-> EmptyData]
ImportOff == [stored |-> EmptyData, runs |-> 0, last |-> NoImport]

\* extractVaultAddress and `new PublicKey` on the inputs, worked out once
ExtractedFrom == [input \in ImportTexts |-> extractVaultAddress(input)]
PublicKeyInputs ==
  {a \in {ExtractedFrom[input].address : input \in ImportTexts} :
     IsPublicKeyInput(a)}

\* the vault the chain may hold at the address taken from the input: none
\* where no address was taken or the address is no public key
LookupsFor(input) ==
  IF ExtractedFrom[input].found /\ ExtractedFrom[input].address \in PublicKeyInputs
    THEN Lookups
    ELSE {NoVault}

\* vaultInfo.members.some(m => m.publicKey === walletAddress)
isMember_Always(vault, owner) == TRUE
isMember(vault, owner) == owner \in vault.members

ImportEnds(frontEnd, owner, input, lookup, outcome, stored) ==
  /\ imp' = [stored |-> stored, runs |-> imp.runs + 1,
             last |-> [frontEnd |-> frontEnd, owner |-> owner,
                       input |-> input, lookup |-> lookup,
                       outcome |-> outcome, before |-> imp.stored]]
  /\ UNCHANGED notImp

\* import-vault.ts main, under Node
ImportVaultCommand ==
  /\ imp.runs < MaxImports
  /\ \E owner \in Owners \cup {NoOwner}, input \in ImportTexts :
     \E lookup \in LookupsFor(input) :
       LET extracted == ExtractedFrom[input]
           ends(outcome, stored) ==
             ImportEnds("import-vault", owner, input, lookup, outcome, stored)
       IN IF input = <<>> THEN ends("INPUT_REQUIRED", imp.stored)
          ELSE IF ~extracted.found THEN ends("INVALID_INPUT", imp.stored)
          ELSE IF owner = NoOwner THEN ends("NO_WALLET", imp.stored)
          ELSE IF extracted.address \notin PublicKeyInputs
            THEN ends("IMPORT_FAILED", imp.stored)
          ELSE IF ~lookup.found THEN ends("VAULT_NOT_FOUND", imp.stored)
          ELSE IF ~isMember(lookup, owner) THEN ends("NOT_A_MEMBER", imp.stored)
          ELSE IF Listed(loadData(imp.stored), owner, extracted.address)
            THEN ends(AlreadyImported, imp.stored)
          ELSE ends(Imported,
                    Apply("node", imp.stored,
                          Register("async", owner, extracted.address,
                                   lookup.createKey)))

\* MyVaults.tsx handleImport, in the browser with the built-in wallet
MyVaultsImport ==
  /\ imp.runs < MaxImports
  /\ \E owner \in Owners, input \in ImportTexts :
     \E lookup \in LookupsFor(input) :
       LET extracted == ExtractedFrom[input]
           ends(outcome, stored) ==
             ImportEnds("MyVaults", owner, input, lookup, outcome, stored)
       IN IF Trim(input) = <<>>
            THEN ends("Please enter a multisig address or link", imp.stored)
          ELSE IF ~extracted.found
            THEN ends("Invalid address or link format", imp.stored)
          ELSE IF extracted.address \notin PublicKeyInputs
            THEN ends("Invalid address format", imp.stored)
          ELSE IF ~lookup.found
            THEN ends("Invalid multisig address or not found", imp.stored)
          ELSE IF ~isMember(lookup, owner)
            THEN ends("You are not a member of this multisig", imp.stored)
          ELSE ends(Imported,
                    SyncCall("browser", imp.stored,
                             Register("sync", owner, extracted.address,
                                      lookup.createKey)))

\* ExternalVaultDetail.tsx handleImportVault, in the browser with a
\* connected wallet
ExternalImportVault ==
  /\ imp.runs < MaxImports
  /\ \E owner \in Owners \cup {NoOwner}, input \in ImportTexts :
     \E lookup \in LookupsFor(input) :
       LET extracted == ExtractedFrom[input]
           ends(outcome, stored) ==
             ImportEnds("ExternalVaults", owner, input, lookup, outcome, stored)
       IN IF owner = NoOwner
            THEN ends("Please connect your wallet first", imp.stored)
          ELSE IF Trim(input) = <<>>
            THEN ends("Please enter a vault address or link", imp.stored)
          ELSE IF ~extracted.found
            THEN ends("Invalid address or link format", imp.stored)
          ELSE IF extracted.address \notin PublicKeyInputs
            THEN ends("Invalid vault address", imp.stored)
          ELSE IF ~lookup.found
            THEN ends("Could not find vault at this address", imp.stored)
          ELSE IF ~isMember(lookup, owner)
            THEN ends("You are not a member of this vault", imp.stored)
          ELSE ends(Imported,
                    SyncCall("browser", imp.stored,
                             Register("sync", owner, extracted.address,
                                      lookup.createKey)))

\* ---------------------------------------------------------------------
\* The end of every chain writer: sendRawTransaction, confirmTransaction

\* what confirmTransaction's caller can meet: sendRawTransaction throws,
\* confirmTransaction throws, or it resolves with value.err set or null
TxOutcomes == {"sendThrows", "confirmThrows", "confirmedErr", "confirmedOk"}

\* the writer returns its signature: neither call threw
WriterReturns(tx) == tx \in {"confirmedErr", "confirmedOk"}

\* ---------------------------------------------------------------------
\* Creation of a vault: CreateVault.tsx (built-in wallet),
\* ExternalCreateVault.tsx (wallet adapter), create-multisig.ts (command)

\* addresses typed for a member: none, two addresses, a text that is none
CreatorAddress == "A1"
SolanaAddresses == {"A1", "A2"}
MemberAddresses == {""} \cup SolanaAddresses \cup {"bad"}

Member(address, initiate, vote, execute) ==
  [address |-> address, initiate |-> initiate, vote |-> vote,
   execute |-> execute]

\* what parseInt made of the text typed or passed: NaN or a number
NotANumber == [nan |-> TRUE, n |-> 0]
Number(n) == [nan |-> FALSE, n |-> n]
ThresholdInputs == {NotANumber} \cup {Number(n) : n \in (0 - 1)..(MaxMembers + 1)}

\* parseInt(e.target.value) || 1
OrOne(parsed) == IF parsed.nan \/ parsed.n = 0 THEN 1 ELSE parsed.n

\* members.filter((m) => m.vote).length
votersCount(members) == Cardinality({i \in 1..Len(members) : members[i].vote})

\* members.filter((_, i) => i !== index)
WithoutIndex(members, index) ==
  [i \in 1..(Len(members) - 1) |->
     IF i < index THEN members[i] ELSE members[i + 1]]

NoSubmission == [sent |-> FALSE, members |-> <<>>, threshold |-> 0]
Submission(members, threshold) ==
  [sent |-> TRUE, members |-> members, threshold |-> threshold]

\* the last attempt: the threshold asked for, the members it was made
\* with, the error shown and what was submitted
NoAttempt ==
  [made |-> FALSE, asked |-> NotANumber, members |-> <<>>, error |-> "",
   submitted |-> NoSubmission, tx |-> "", registered |-> FALSE]
Attempt(asked, members, error, submitted) ==
  [made |-> TRUE, asked |-> asked, members |-> members, error |-> error,
   submitted |-> submitted, tx |-> "", registered |-> FALSE]

\* an attempt that reached its chain writer: when the writer returns, the
\* vault is saved to the creator's list (saveMultisigAddress,
\* onVaultCreated, saveMultisigAddressAsync); when it throws, the catch
\* block shows the error
Created(asked, members, submitted, tx, failed) ==
  [made |-> TRUE, asked |-> asked, members |-> members,
   error |-> IF WriterReturns(tx) THEN "" ELSE failed,
   submitted |-> submitted, tx |-> tx, registered |-> WriterReturns(tx)]

CreateOff ==
  [frontEnd |-> "", connected |-> FALSE, members |-> <<>>, threshold |-> 0,
   last |-> NoAttempt]

\* useState: the creator with every permission, threshold 1
FormOf(frontEnd, connected) ==
  [frontEnd |-> frontEnd, connected |-> connected,
   members |-> <<Member(IF connected THEN CreatorAddress ELSE "",
                        TRUE, TRUE, TRUE)>>,
   threshold |-> 1, last |-> NoAttempt]

Forms2 == {"CreateVault", "ExternalCreateVault"}

\* ExternalCreateVault on render: with a wallet connected and the first
\* address empty the member list is set to the creator alone
Rendered(form) ==
  IF form.frontEnd = "ExternalCreateVault" /\ form.connected
       /\ form.members[1].address = ""
    THEN [form EXCEPT !.members = <<Member(CreatorAddress, TRUE, TRUE, TRUE)>>]
    ELSE form

Edited(form) == cre' = Rendered([form EXCEPT !.last = NoAttempt])

addMember ==
  /\ cre.frontEnd \in Forms2
  /\ Len(cre.members) < MaxMembers
  /\ Edited([cre EXCEPT !.members = Append(@, Member("", TRUE, TRUE, TRUE))])
  /\ UNCHANGED notCre

removeMember ==
  /\ cre.frontEnd \in Forms2
  /\ Len(cre.members) > 1
  /\ \E index \in 1..Len(cre.members) :
       LET newMembers == WithoutIndex(cre.members, index)
       IN Edited([cre EXCEPT !.members = newMembers,
                             !.threshold = IF @ > Len(newMembers)
                                             THEN Len(newMembers) ELSE @])
  /\ UNCHANGED notCre

\* the address field of a member is disabled: in CreateVault the first
\* one, in ExternalCreateVault the first one while it holds the address of
\* the connected wallet
AddressDisabled(form, index) ==
  /\ index = 1
  /\ \/ form.frontEnd = "CreateVault"
     \/ form.connected /\ form.members[1].address = CreatorAddress

updateMemberAddress ==
  /\ cre.frontEnd \in Forms2
  /\ \E index \in 1..Len(cre.members), address \in MemberAddresses :
       /\ ~AddressDisabled(cre, index)
       /\ Edited([cre EXCEPT !.members[index].address = address])
  /\ UNCHANGED notCre

updateMemberPermission ==
  /\ cre.frontEnd \in Forms2
  /\ \E index \in 1..Len(cre.members), value \in BOOLEAN :
       \/ Edited([cre EXCEPT !.members[index].initiate = value])
       \/ Edited([cre EXCEPT !.members[index].vote = value])
       \/ Edited([cre EXCEPT !.members[index].execute = value])
  /\ UNCHANGED notCre

\* the threshold field's onChange
setThreshold ==
  /\ cre.frontEnd \in Forms2
  /\ \E parsed \in ThresholdInputs :
       Edited([cre EXCEPT !.threshold =
                 IF cre.frontEnd = "CreateVault"
                   THEN (IF OrOne(parsed) > 1 THEN OrOne(parsed) ELSE 1)
                   ELSE OrOne(parsed)])
  /\ UNCHANGED notCre

BuiltinMemberFails(m) ==
  \/ m.address = ""
  \/ m.address \notin SolanaAddresses
  \/ ~m.initiate /\ ~m.vote /\ ~m.execute

BuiltinMemberError(m) ==
  IF m.address = "" THEN "Address is required"
  ELSE IF m.address \notin SolanaAddresses THEN "Invalid Solana address"
  ELSE "Must have at least one permission"

\* CreateVault.tsx handleCreate: the first member that fails a check
BuiltinFirstFailing(members) ==
  IF \E i \in 1..Len(members) : BuiltinMemberFails(members[i])
    THEN CHOOSE i \in 1..Len(members) :
           /\ BuiltinMemberFails(members[i])
           /\ \A j \in 1..(i - 1) : ~BuiltinMemberFails(members[j])
    ELSE 0

\* new Set(addresses).size !== addresses.length
HasDuplicates(members) ==
  \E i \in 1..Len(members), j \in 1..Len(members) :
    i # j /\ members[i].address = members[j].address

CreatePasswords == {"", "wrong", "right"}

CreateVaultHandleCreate ==
  /\ cre.frontEnd = "CreateVault"
  /\ \E password \in CreatePasswords :
       LET members == cre.members
           threshold == cre.threshold
           failing == BuiltinFirstFailing(members)
           ends(error, submitted) ==
             cre' = [cre EXCEPT !.last = Attempt(Number(threshold), members,
                                                 error, submitted)]
       IN IF failing # 0
            THEN ends(BuiltinMemberError(members[failing]), NoSubmission)
          ELSE IF HasDuplicates(members)
            THEN ends("Duplicate member addresses are not allowed",
                      NoSubmission)
          ELSE IF threshold > votersCount(members)
            THEN ends("Threshold cannot exceed number of voters", NoSubmission)
          ELSE IF password = ""
            THEN ends("Please enter your password to sign the transaction",
                      NoSubmission)
          ELSE IF password # "right"
            THEN ends("Invalid password", NoSubmission)
          ELSE \E tx \in TxOutcomes :
                 cre' = [cre EXCEPT !.last =
                           Created(Number(threshold), members,
                                   Submission(members, threshold), tx,
                                   "Failed")]
  /\ UNCHANGED notCre

ExternalMemberFails(m) == m.address = "" \/ m.address \notin SolanaAddresses

ExternalMemberError(m) ==
  IF m.address = "" THEN "All member addresses are required"
  ELSE "Invalid address"

\* ExternalCreateVault.tsx handleCreate: the first member that fails a check
ExternalFirstFailing(members) ==
  IF \E i \in 1..Len(members) : ExternalMemberFails(members[i])
    THEN CHOOSE i \in 1..Len(members) :
           /\ ExternalMemberFails(members[i])
           /\ \A j \in 1..(i - 1) : ~ExternalMemberFails(members[j])
    ELSE 0

ExternalCreateVaultHandleCreate ==
  /\ cre.frontEnd = "ExternalCreateVault"
  /\ LET members == cre.members
         threshold == cre.threshold
         failing == ExternalFirstFailing(members)
         ends(error, submitted) ==
           cre' = [cre EXCEPT !.last = Attempt(Number(threshold), members,
                                               error, submitted)]
     IN IF ~cre.connected
          THEN ends("Please connect your wallet first", NoSubmission)
        ELSE IF failing # 0
          THEN ends(ExternalMemberError(members[failing]), NoSubmission)
        ELSE IF threshold < 1 \/ threshold > votersCount(members)
          THEN ends("Threshold must be between 1 and the number of voters",
                    NoSubmission)
        ELSE \E tx \in TxOutcomes :
               cre' = [cre EXCEPT !.last =
                         Created(Number(threshold), members,
                                 Submission(members, threshold), tx,
                                 "Failed")]
  /\ UNCHANGED notCre

\* create-multisig.ts: --members as the list of its trimmed, non-empty parts
MembersArgs ==
  UNION {[1..n -> MemberAddresses \ {""}] : n \in 0..(MaxMembers - 1)}

\* new Set([creator]) and memberAddresses.add(trimmed), in order
RECURSIVE AddedInOrder(_, _)
AddedInOrder(set, parts) ==
  IF parts = <<>> THEN set
  ELSE IF \E i \in 1..Len(set) : set[i] = Head(parts)
    THEN AddedInOrder(set, Tail(parts))
    ELSE AddedInOrder(Append(set, Head(parts)), Tail(parts))

\* Math.ceil(members.length / 2)
Majority(n) == (n + 1) \div 2

CreateMultisigCommand ==
  /\ cre.frontEnd = "create-multisig"
  /\ ~cre.last.made
  /\ \E parts \in MembersArgs, parsed \in ThresholdInputs,
        password \in CreatePasswords, balanceEnough \in BOOLEAN,
        dryRun \in BOOLEAN :
       LET threshold == IF parsed.nan THEN 0 ELSE parsed.n
           addresses == AddedInOrder(<<CreatorAddress>>, parts)
           members == [i \in 1..Len(addresses) |->
                         Member(addresses[i], TRUE, TRUE, TRUE)]
           finalThreshold ==
             IF threshold > 0 THEN threshold ELSE Majority(Len(members))
           ends(error, submitted) ==
             cre' = [cre EXCEPT !.members = members,
                                !.threshold = finalThreshold,
                                !.last = Attempt(parsed, members, error,
                                                 submitted)]
       IN IF password = "" THEN ends("PASSWORD_REQUIRED", NoSubmission)
          ELSE IF password # "right" THEN ends("CREATE_FAILED", NoSubmission)
          ELSE IF \E i \in 1..Len(parts) : parts[i] \notin SolanaAddresses
            THEN ends("INVALID_MEMBER_ADDRESS", NoSubmission)
          ELSE IF finalThreshold > Len(members)
            THEN ends("INVALID_THRESHOLD", NoSubmission)
          ELSE IF finalThreshold < 1
            THEN ends("INVALID_THRESHOLD", NoSubmission)
          ELSE IF ~balanceEnough
            THEN ends("INSUFFICIENT_BALANCE", NoSubmission)
          ELSE IF dryRun THEN ends("", NoSubmission)
          ELSE \E tx \in TxOutcomes :
                 cre' = [cre EXCEPT
                           !.members = members, !.threshold = finalThreshold,
                           !.last = Created(parsed, members,
                                            Submission(members, finalThreshold),
                                            tx, "CREATE_FAILED")]
  /\ UNCHANGED notCre

\* ---------------------------------------------------------------------
\* Proposals: getProposalStatus (ExternalCreateVault.tsx:635-683) and the
\* votes cast from the vault page (part_000), from ExternalVaultDetail.tsx
\* and from the approve-proposal command (skill/send-token.ts:294-406)

\* proposal.status.__kind as the multisig program defines it
RawStatusKinds ==
  {"Draft", "Active", "Rejected", "Approved", "Executing", "Executed",
   "Cancelled"}

\* ProposalInfo["status"]
LogicalStatuses ==
  {"Draft", "Active", "Approved", "Rejected", "Executed", "Cancelled"}

\* the user and another member
User == "m1"
Voters == {"m1", "m2"}

\* what the user is in the vault: no member, a member without or with the
\* vote permission
UserRoles == {"none", "noVote", "vote"}

\* the proposal account: missing, or with its status and votes
NoProposal ==
  [exists |-> FALSE, kind |-> "", approved |-> {}, rejected |-> {}]
ProposalAccounts ==
  {NoProposal}
    \cup [exists : {TRUE}, kind : RawStatusKinds, approved : SUBSET Voters,
          rejected : SUBSET Voters]

\* the status getProposalStatus reports for a raw status
StatusOf(kind) ==
  IF kind = "Active" THEN "Active"
  ELSE IF kind = "Approved" THEN "Approved"
  ELSE IF kind = "Rejected" THEN "Rejected"
  ELSE IF kind = "Executed" THEN "Executed"
  ELSE IF kind = "Cancelled" THEN "Cancelled"
  ELSE "Draft"

\* getProposalStatus: null, or the ProposalInfo
NoInfo ==
  [found |-> FALSE, status |-> "", approvals |-> {}, rejections |-> {}]
getProposalStatus(account) ==
  IF ~account.exists
    THEN NoInfo
    ELSE [found |-> TRUE, status |-> StatusOf(account.kind),
          approvals |-> account.approved, rejections |-> account.rejected]

NoVote == [asked |-> FALSE, frontEnd |-> "", kind |-> "", error |-> "",
           submitted |-> FALSE]
VoteOff ==
  [account |-> NoProposal, role |-> "none", fetched |-> FALSE,
   info |-> NoInfo, last |-> NoVote]

\* fetchData / loadVaultData: the component loads the proposal
FetchProposal ==
  /\ ~vot.fetched
  /\ vot' = [vot EXCEPT !.fetched = TRUE,
                        !.info = getProposalStatus(vot.account)]
  /\ UNCHANGED notVot

\* hasVoted(proposal)
hasVoted(info) == User \in info.approvals \/ User \in info.rejections

\* userPermissions?.vote, canUserVote()
canUserVote(role) == role = "vote"

\* the Approve and Reject buttons are rendered
ButtonsShown ==
  /\ vot.fetched
  /\ vot.info.found
  /\ vot.info.status = "Active"
  /\ ~hasVoted(vot.info)
  /\ canUserVote(vot.role)

VoteKinds == {"approve", "reject"}
VotePasswords == {"", "wrong", "right"}

VoteEnds(frontEnd, kind, error, submitted) ==
  /\ vot' = [vot EXCEPT !.last = [asked |-> TRUE, frontEnd |-> frontEnd,
                                  kind |-> kind, error |-> error,
                                  submitted |-> submitted]]
  /\ UNCHANGED notVot

\* part_000 handleApprove / handleReject, from a button shown
VaultDetailVote ==
  /\ ButtonsShown
  /\ ~vot.last.asked
  /\ \E kind \in VoteKinds, pwd \in VotePasswords :
       IF pwd = "" THEN VoteEnds("VaultDetail", kind, "", FALSE)
       ELSE IF pwd # "right"
         THEN VoteEnds("VaultDetail", kind, "Invalid password", FALSE)
       ELSE VoteEnds("VaultDetail", kind, "", TRUE)

\* ExternalVaultDetail.tsx handleApprove / handleReject, from a button shown
ExternalVaultDetailVote ==
  /\ ButtonsShown
  /\ ~vot.last.asked
  /\ \E kind \in VoteKinds :
       VoteEnds("ExternalVaultDetail", kind, "", TRUE)

\* skill/send-token.ts main (approve-proposal)
ApproveProposalCommand ==
  /\ ~vot.fetched
  /\ ~vot.last.asked
  /\ \E proposalIndex \in {0, 1}, password \in VotePasswords :
       LET proposal == getProposalStatus(vot.account)
           ends(error, submitted) ==
             VoteEnds("approve-proposal", "approve", error, submitted)
       IN IF proposalIndex = 0 \/ password = ""
            THEN ends("MISSING_ARGS", FALSE)
          ELSE IF password # "right" THEN ends("APPROVE_FAILED", FALSE)
          ELSE IF ~proposal.found THEN ends("PROPOSAL_NOT_FOUND", FALSE)
          ELSE IF proposal.status # "Active"
            THEN ends("PROPOSAL_NOT_ACTIVE", FALSE)
          ELSE IF User \in proposal.approvals
            THEN ends("ALREADY_APPROVED", FALSE)
          ELSE ends("", TRUE)

\* ---------------------------------------------------------------------
\* Acting on a vault: the vault page of the built-in wallet (part_000), of
\* the external wallet (ExternalVaultDetail.tsx), and the commands
\* approve-proposal (skill/send-token.ts), execute-proposal (part_014) and
\* create-proposal (part_004), each ending in a chain writer of
\* ExternalCreateVault.tsx:455-632 or multisigWalletAdapter.ts

\* MultisigMember.permissions
Permissions == {"initiate", "vote", "execute"}

\* proposal accounts as the program keeps them: a member is in at most one
\* of approved and rejected
ChainProposals ==
  {p \in ProposalAccounts : p.approved \cap p.rejected = {}}

\* the vault on chain as the user meets it: missing, or with the user's
\* membership and permissions and one proposal and its creator
NoChainVault ==
  [exists |-> FALSE, member |-> FALSE, perms |-> {}, proposal |-> NoProposal,
   creator |-> ""]
ChainVaults ==
  {NoChainVault}
    \cup {v \in [exists : {TRUE}, member : BOOLEAN, perms : SUBSET Permissions,
                 proposal : ChainProposals, creator : Voters] :
            ~v.member => v.perms = {}}

\* the balance of the vault, in SOL
SolBalance == 2

\* what the page holds after fetchData / loadVaultData
NoView ==
  [loaded |-> FALSE, frontEnd |-> "", perms |-> {}, info |-> NoInfo]
ViewOf(frontEnd, chain) ==
  [loaded |-> TRUE, frontEnd |-> frontEnd, perms |-> chain.perms,
   info |-> getProposalStatus(chain.proposal)]

NoAct ==
  [asked |-> FALSE, frontEnd |-> "", kind |-> "", seen |-> NoInfo,
   error |-> "", submitted |-> FALSE, tx |-> "", success |-> FALSE,
   refreshed |-> FALSE]
ActOff ==
  [chain |-> NoChainVault, moved |-> FALSE, view |-> NoView, last |-> NoAct]

VaultPages == {"VaultDetail", "ExternalVaultDetail"}

\* fetchData, loadVaultData: nothing is set when the vault is not found
LoadVaultDetail ==
  /\ ~act.last.asked
  /\ act.chain.exists
  /\ \E frontEnd \in VaultPages :
       act' = [act EXCEPT !.view = ViewOf(frontEnd, act.chain)]
  /\ UNCHANGED notAct

\* the statuses a proposal can move to on chain
LaterKinds(kind) ==
  IF kind = "Draft" THEN {"Active"}
  ELSE IF kind = "Active" THEN {"Approved", "Rejected", "Cancelled"}
  ELSE IF kind = "Approved" THEN {"Executing", "Executed", "Cancelled"}
  ELSE IF kind = "Executing" THEN {"Executed"}
  ELSE {}

\* a transaction of another member changes the proposal
OtherMemberActs ==
  /\ ~act.moved
  /\ ~act.last.asked
  /\ act.chain.proposal.exists
  /\ \E kind \in LaterKinds(act.chain.proposal.kind) :
       act' = [act EXCEPT !.moved = TRUE, !.chain.proposal.kind = kind]
  /\ UNCHANGED notAct

\* an operation that stopped before any chain writer was called
ActRefused(frontEnd, kind, seen, error) ==
  /\ act' = [act EXCEPT !.last = [NoAct EXCEPT !.asked = TRUE,
                                               !.frontEnd = frontEnd,
                                               !.kind = kind, !.seen = seen,
                                               !.error = error]]
  /\ UNCHANGED notAct

\* an operation that called its chain writer, in a component: the page is
\* loaded again when the writer returned
PageSubmits(frontEnd, kind, seen) ==
  /\ \E tx \in TxOutcomes :
       act' = [act EXCEPT
                 !.last = [asked |-> TRUE, frontEnd |-> frontEnd,
                           kind |-> kind, seen |-> seen,
                           error |-> IF WriterReturns(tx) THEN "" ELSE "Failed",
                           submitted |-> TRUE, tx |-> tx,
                           success |-> WriterReturns(tx),
                           refreshed |-> WriterReturns(tx)],
                 !.view = IF WriterReturns(tx) /\ act.chain.exists
                            THEN ViewOf(frontEnd, act.chain) ELSE @]
  /\ UNCHANGED notAct

\* an operation that called its chain writer, in a command
CommandSubmits(frontEnd, kind, seen, failed) ==
  /\ \E tx \in TxOutcomes :
       act' = [act EXCEPT
                 !.last = [asked |-> TRUE, frontEnd |-> frontEnd,
                           kind |-> kind, seen |-> seen,
                           error |-> IF WriterReturns(tx) THEN "" ELSE failed,
                           submitted |-> TRUE, tx |-> tx,
                           success |-> WriterReturns(tx),
                           refreshed |-> FALSE]]
  /\ UNCHANGED notAct

\* the buttons of a proposal card
VoteOffered(view) ==
  /\ view.info.found
  /\ view.info.status = "Active"
  /\ ~hasVoted(view.info)
  /\ "vote" \in view.perms

\* canExecute(proposal) && userPermissions?.execute
ExecuteOffered(view) ==
  /\ view.info.found
  /\ view.info.status = "Approved"
  /\ "execute" \in view.perms

\* userPermissions?.initiate, canUserPropose()
ProposeOffered(view) == "initiate" \in view.perms

ProposalActs == {"approve", "reject", "execute"}

\* part_000 handleApprove / handleReject / handleExecute
VaultDetailHandle ==
  /\ ~act.last.asked
  /\ act.view.loaded
  /\ act.view.frontEnd = "VaultDetail"
  /\ \E kind \in ProposalActs, pwd \in VotePasswords :
       /\ IF kind = "execute"
            THEN ExecuteOffered(act.view) ELSE VoteOffered(act.view)
       /\ IF pwd = ""
            THEN ActRefused("VaultDetail", kind, act.view.info, "")
          ELSE IF pwd # "right"
            THEN ActRefused("VaultDetail", kind, act.view.info,
                            "Invalid password")
          ELSE PageSubmits("VaultDetail", kind, act.view.info)

\* ExternalVaultDetail.tsx handleApprove / handleReject / handleExecute
ExternalVaultDetailHandle ==
  /\ ~act.last.asked
  /\ act.view.loaded
  /\ act.view.frontEnd = "ExternalVaultDetail"
  /\ \E kind \in ProposalActs :
       /\ IF kind = "execute"
            THEN ExecuteOffered(act.view) ELSE VoteOffered(act.view)
       /\ PageSubmits("ExternalVaultDetail", kind, act.view.info)

\* what is typed for a transfer
Recipients == {"", "bad", "R1"}
Amounts == {-1, 0, 1, 3}

\* new PublicKey(recipient) does not throw
IsRecipient(to) == to = "R1"

\* part_000 handleCreateTransfer, in the Transfer tab
VaultDetailCreateTransfer ==
  /\ ~act.last.asked
  /\ act.view.loaded
  /\ act.view.frontEnd = "VaultDetail"
  /\ ProposeOffered(act.view)
  /\ \E to \in Recipients, amount \in Amounts, pwd \in VotePasswords :
       LET refused(error) ==
             ActRefused("VaultDetail", "propose", act.view.info, error)
       IN IF to = "" THEN refused("Please fill in recipient and amount")
          ELSE IF ~IsRecipient(to) THEN refused("Invalid recipient address")
          ELSE IF amount <= 0 THEN refused("Invalid amount")
          ELSE IF amount > SolBalance
            THEN refused("Insufficient vault balance")
          ELSE IF pwd = "" THEN refused("Please enter your password")
          ELSE IF pwd # "right" THEN refused("Invalid password")
          ELSE PageSubmits("VaultDetail", "propose", act.view.info)

\* ExternalVaultDetail.tsx handleCreateTransfer, in the Transfer tab
ExternalCreateTransfer ==
  /\ ~act.last.asked
  /\ act.view.loaded
  /\ act.view.frontEnd = "ExternalVaultDetail"
  /\ ProposeOffered(act.view)
  /\ \E to \in Recipients, amount \in Amounts :
       LET refused(error) ==
             ActRefused("ExternalVaultDetail", "propose", act.view.info, error)
       IN IF to = "" THEN refused("Please enter a recipient address")
          ELSE IF amount <= 0 THEN refused("Please enter a valid amount")
          ELSE IF ~IsRecipient(to) THEN refused("Failed")
          ELSE PageSubmits("ExternalVaultDetail", "propose", act.view.info)

\* skill/send-token.ts main (approve-proposal), with its chain writer
ApproveCommand ==
  /\ ~act.last.asked
  /\ \E proposalIndex \in {0, 1}, password \in VotePasswords :
       LET proposal == IF act.chain.exists
                         THEN getProposalStatus(act.chain.proposal)
                         ELSE NoInfo
           refused(error) ==
             ActRefused("approve-proposal", "approve", proposal, error)
       IN IF proposalIndex = 0 \/ password = ""
            THEN ActRefused("approve-proposal", "approve", NoInfo,
                            "MISSING_ARGS")
          ELSE IF password # "right"
            THEN ActRefused("approve-proposal", "approve", NoInfo,
                            "APPROVE_FAILED")
          ELSE IF ~proposal.found THEN refused("PROPOSAL_NOT_FOUND")
          ELSE IF proposal.status # "Active"
            THEN refused("PROPOSAL_NOT_ACTIVE")
          ELSE IF User \in proposal.approvals
            THEN refused("ALREADY_APPROVED")
          ELSE CommandSubmits("approve-proposal", "approve", proposal,
                              "APPROVE_FAILED")

\* part_014 main (execute-proposal)
ExecuteProposalCommand ==
  /\ ~act.last.asked
  /\ \E proposalIndex \in {0, 1}, password \in VotePasswords :
       LET proposal == IF act.chain.exists
                         THEN getProposalStatus(act.chain.proposal)
                         ELSE NoInfo
           refused(error) ==
             ActRefused("execute-proposal", "execute", proposal, error)
       IN IF proposalIndex = 0 \/ password = ""
            THEN ActRefused("execute-proposal", "execute", NoInfo,
                            "MISSING_ARGS")
          ELSE IF password # "right"
            THEN ActRefused("execute-proposal", "execute", NoInfo,
                            "INVALID_PASSWORD")
          ELSE IF ~proposal.found THEN refused("PROPOSAL_NOT_FOUND")
          ELSE IF proposal.status # "Approved"
            THEN refused("PROPOSAL_NOT_APPROVED")
          ELSE CommandSubmits("execute-proposal", "execute", proposal,
                              "EXECUTE_FAILED")

\* part_004 main (create-proposal)
CreateProposalCommand ==
  /\ ~act.last.asked
  /\ \E to \in Recipients, amount \in Amounts, password \in VotePasswords,
        dryRun \in BOOLEAN :
       LET refused(error) ==
             ActRefused("create-proposal", "propose", NoInfo, error)
       IN IF to = "" \/ amount = 0 \/ password = ""
            THEN refused("MISSING_ARGS")
          ELSE IF ~IsRecipient(to) THEN refused("INVALID_RECIPIENT_ADDRESS")
          ELSE IF amount <= 0 THEN refused("INVALID_AMOUNT")
          ELSE IF password # "right" THEN refused("INVALID_PASSWORD")
          ELSE IF ~act.chain.exists THEN refused("VAULT_NOT_FOUND")
          ELSE IF ~act.chain.member THEN refused("NOT_A_MEMBER")
          ELSE IF amount > SolBalance
            THEN refused("INSUFFICIENT_VAULT_BALANCE")
          ELSE IF dryRun THEN refused("")
          ELSE CommandSubmits("create-proposal", "propose", NoInfo,
                              "PROPOSAL_FAILED")

\* ---------------------------------------------------------------------
\* getProposals (ExternalCreateVault.tsx:686-708)

\* how far back of the current index the listing starts
WINDOW_BACK == 19

\* the indices whose proposal may fail to load: the ends of the window and
\* the indices next to them
EdgeIndexes(T) ==
  {1, T - WINDOW_BACK - 1, T - WINDOW_BACK, T - WINDOW_BACK + 1, T - 1, T}
    \cap (1 .. T)

\* Math.max(1, currentIndex - 19)
StartIndex_FromOne(currentIndex) == 1
StartIndex(currentIndex) ==
  IF currentIndex - WINDOW_BACK > 1 THEN currentIndex - WINDOW_BACK ELSE 1

\* for (let i = startIndex; i <= currentIndex; i++): the proposals pushed,
\* those that fail to load left out
RECURSIVE PushedFrom(_, _, _)
PushedFrom(i, currentIndex, missing) ==
  IF i > currentIndex THEN <<>>
  ELSE (IF i \in missing THEN <<>> ELSE <<i>>)
         \o PushedFrom(i + 1, currentIndex, missing)

\* proposals.reverse()
Reversed(s) == [k \in 1 .. Len(s) |-> s[Len(s) + 1 - k]]

\* getProposals: the indices of the proposals returned
getProposals(vaultFound, T, missing) ==
  IF ~vaultFound THEN <<>>
  ELSE Reversed(PushedFrom(StartIndex(T), T, missing))

ListingOff ==
  [vaultFound |-> FALSE, T |-> 0, missing |-> {}, called |-> FALSE,
   proposals |-> <<>>]

\* a call of getProposals
GetProposalsCall ==
  /\ ~lst.called
  /\ lst' = [lst EXCEPT !.called = TRUE,
                        !.proposals = getProposals(lst.vaultFound, lst.T,
                                                   lst.missing)]
  /\ UNCHANGED notLst

\* the vault moves on: a proposal is created
ProposalCreated ==
  /\ lst.vaultFound
  /\ lst.T < MaxIndex
  /\ lst' = [lst EXCEPT !.T = @ + 1, !.called = FALSE, !.proposals = <<>>]
  /\ UNCHANGED notLst

\* ---------------------------------------------------------------------
\* discoverMultisigsForMember (ExternalCreateVault.tsx:729-794)

\* the dataSize the first scan filters by
MULTISIG_DATA_SIZE == 178

\* data sizes of accounts of the program: the filtered size and another
DataSizes == {MULTISIG_DATA_SIZE, 210}

\* an account owned by the program: its data parses as a Multisig with
\* these members, or does not parse
ProgramAccounts ==
  [size : DataSizes, parses : {TRUE}, members : SUBSET Owners]
    \cup [size : DataSizes, parses : {FALSE}, members : {{}}]

\* what the program owns: accounts, each known by its place
RECURSIVE AccountLists(_)
AccountLists(n) ==
  IF n = 0 THEN {<<>>}
  ELSE AccountLists(n - 1)
         \cup {Append(l, a) : l \in {x \in AccountLists(n - 1) : Len(x) = n - 1},
                              a \in ProgramAccounts}

\* connection.getProgramAccounts(programId, {filters: [{dataSize}]}): the
\* places of the accounts of that size
RECURSIVE PlacesFrom(_, _, _)
PlacesFrom(accounts, i, sizes) ==
  IF i > Len(accounts) THEN <<>>
  ELSE (IF accounts[i].size \in sizes THEN <<i>> ELSE <<>>)
         \o PlacesFrom(accounts, i + 1, sizes)

\* accounts.length > 0 ? accounts : await getProgramAccounts(programId)
accountsToCheck(accounts) ==
  LET filtered == PlacesFrom(accounts, 1, {MULTISIG_DATA_SIZE})
  IN IF Len(filtered) > 0 THEN filtered
     ELSE PlacesFrom(accounts, 1, DataSizes)

\* the loop over accountsToCheck: those that parse and list the member
RECURSIVE VaultsPushed(_, _, _, _)
VaultsPushed(accounts, places, k, member) ==
  IF k > Len(places) THEN <<>>
  ELSE (IF accounts[places[k]].parses /\ member \in accounts[places[k]].members
          THEN <<places[k]>> ELSE <<>>)
         \o VaultsPushed(accounts, places, k + 1, member)

\* discoverMultisigsForMember: the places of the vaults returned; a scan
\* that throws returns none
discoverMultisigsForMember(accounts, member, scanThrows) ==
  IF scanThrows THEN <<>>
  ELSE VaultsPushed(accounts, accountsToCheck(accounts), 1, member)

DiscoveryOff ==
  [accounts |-> <<>>, called |-> FALSE, member |-> "", scanThrows |-> FALSE,
   vaults |-> <<>>]

\* a call of discoverMultisigsForMember
DiscoverCall ==
  /\ \E member \in Owners, scanThrows \in BOOLEAN :
       dis' = [dis EXCEPT
                 !.called = TRUE, !.member = member,
                 !.scanThrows = scanThrows,
                 !.vaults = discoverMultisigsForMember(dis.accounts, member,
                                                       scanThrows)]
  /\ UNCHANGED notDis

\* ---------------------------------------------------------------------
\* The list of vaults of the connected wallet: ExternalDashboard
\* (ExternalVaultDetail.tsx:575-733) and opening a vault page
\* (loadVaultData, ExternalVaultDetail.tsx:48-87)

\* publicKey.toBase58() of the connected wallet
DashOwner == "o1"

\* the createKey the chain holds for every vault
ChainCreateKey == "k1"

\* the vaults in the order a scan returns them
ScanOrder == <<"v1", "v2">>

\* discoverMultisigsForMember as loadVaults meets it: the vaults on chain
\* that list the owner, or none when the scan throws
RECURSIVE Discovered(_, _)
Discovered(memberOf, k) ==
  IF k > Len(ScanOrder) THEN <<>>
  ELSE (IF ScanOrder[k] \in memberOf THEN <<ScanOrder[k]>> ELSE <<>>)
         \o Discovered(memberOf, k + 1)

\* new Set(storedMultisigs.map((s) => s.multisigPda))
KnownAddresses(stored) ==
  {ListOf(stored, DashOwner)[i].multisigPda :
     i \in 1..Len(ListOf(stored, DashOwner))}

\* "Add any newly discovered vaults to storage": the loop of loadVaults
RECURSIVE AddDiscovered(_, _, _)
AddDiscovered(stored, known, discovered) ==
  IF discovered = <<>> THEN stored
  ELSE IF Head(discovered) \in known
    THEN AddDiscovered(stored, known, Tail(discovered))
    ELSE AddDiscovered(SyncCall("browser", stored,
                                Register("sync", DashOwner, Head(discovered),
                                         ChainCreateKey)),
                       known \cup {Head(discovered)}, Tail(discovered))

DashboardOff ==
  [mounted |-> FALSE, memberOf |-> {}, stored |-> EmptyData,
   refresh |-> FALSE, loading |-> FALSE, known |-> {}, removed |-> {},
   shown |-> {}, error |-> ""]

\* loadVaults up to its await: the stored list is read, the scan starts
LoadVaultsStart ==
  /\ dsh.mounted
  /\ dsh.refresh
  /\ ~dsh.loading
  /\ dsh' = [dsh EXCEPT !.refresh = FALSE, !.loading = TRUE,
                        !.known = KnownAddresses(dsh.stored)]
  /\ UNCHANGED notDsh

\* loadVaults after the scan: discovered vaults are stored, all are shown
LoadVaultsEnd ==
  /\ dsh.loading
  /\ \E scanThrows \in BOOLEAN :
       LET discovered == IF scanThrows THEN <<>>
                         ELSE Discovered(dsh.memberOf, 1)
           found == {discovered[k] : k \in 1..Len(discovered)}
       IN dsh' = [dsh EXCEPT
                    !.loading = FALSE, !.known = {},
                    !.stored = AddDiscovered(dsh.stored, dsh.known, discovered),
                    !.shown = dsh.known \cup found]
  /\ UNCHANGED notDsh

\* handleRemoveVault, on a vault of the list shown
HandleRemoveVault ==
  /\ dsh.mounted
  /\ \E v \in dsh.shown, accepted \in BOOLEAN :
       IF accepted
         THEN dsh' = [dsh EXCEPT
                        !.stored = SyncCall("browser", dsh.stored,
                                            Remove("sync", DashOwner, v)),
                        !.removed = @ \cup {v}, !.refresh = TRUE]
         ELSE dsh' = dsh
  /\ UNCHANGED notDsh

\* handleImportVault with the address of a vault typed in
DashboardImportVault ==
  /\ dsh.mounted
  /\ \E v \in VaultAddresses :
       IF v \notin dsh.memberOf
         THEN dsh' = [dsh EXCEPT !.error = "You are not a member of this vault"]
         ELSE dsh' = [dsh EXCEPT
                        !.stored = SyncCall("browser", dsh.stored,
                                            Register("sync", DashOwner, v,
                                                     ChainCreateKey)),
                        !.removed = @ \ {v}, !.error = "", !.refresh = TRUE]
  /\ UNCHANGED notDsh

\* loadVaultData: the page of a vault is opened, from the list or by a link
OpenVaultPage ==
  /\ dsh.mounted
  /\ \E v \in VaultAddresses :
       IF v \in dsh.memberOf
         THEN dsh' = [dsh EXCEPT
                        !.stored = SyncCall("browser", dsh.stored,
                                            Register("sync", DashOwner, v,
                                                     ChainCreateKey)),
                        !.error = ""]
         ELSE dsh' = [dsh EXCEPT !.error = "Vault not found"]
  /\ UNCHANGED notDsh

\* ---------------------------------------------------------------------
\* The built-in wallet UI with its awaits: handleCreateWallet and
\* handleUnlockWallet run up to `await saveWallet` / `await loadWallet`
\* and go on when the promise settles (BuiltinWalletApp.tsx:255-314)

\* loadWallet returning null: localStorage held no item when it was called
NullKeypair == Ok(0)

NoLast == [op |-> "", overtaken |-> FALSE, entered |-> FALSE]

BuiltinOff ==
  [item |-> NoItem, view |-> "off", keypair |-> 0, loading |-> FALSE,
   error |-> "", keys |-> 0, started |-> 0, pend |-> {}, last |-> NoLast]

\* how a handler of a form is started: the button is disabled while
\* loading, the Enter key of the password field is not
Triggers == {"click", "enter"}
Enabled(trigger) == trigger = "enter" \/ ~bui.loading

\* a handler may start: the bounds of one run
BuiStarts == bui.started < MaxUiOps
BuiAwaits == BuiStarts /\ Cardinality(bui.pend) < MaxPending

Pending(kind, res, key, item) ==
  [id |-> bui.started + 1, kind |-> kind, res |-> res, key |-> key,
   item |-> item, overtaken |-> FALSE]

\* handleCreateWallet up to `await saveWallet(newKeypair, password)`
CreateWalletStart ==
  /\ bui.view = "create"
  /\ \E trigger \in Triggers, password \in Passwords,
        confirmPassword \in Passwords :
       /\ Enabled(trigger)
       /\ IF Len(password) < 8
            THEN /\ BuiStarts
                 /\ bui' = [bui EXCEPT
                              !.error = "Password must be at least 8 characters",
                              !.started = @ + 1, !.last = NoLast]
          ELSE IF password # confirmPassword
            THEN /\ BuiStarts
                 /\ bui' = [bui EXCEPT !.error = "Passwords do not match",
                                       !.started = @ + 1, !.last = NoLast]
          ELSE /\ BuiAwaits
               /\ bui.keys < MaxKeys
               /\ \E salt \in RandomBytes(SALT_LENGTH),
                     iv \in RandomBytes(IV_LENGTH) :
                    bui' = [bui EXCEPT
                              !.error = "", !.loading = TRUE,
                              !.keys = @ + 1, !.started = @ + 1,
                              !.pend = @ \cup
                                {Pending("create", NullKeypair, bui.keys + 1,
                                         saveWallet(bui.keys + 1, password,
                                                    salt, iv))},
                              !.last = NoLast]
  /\ UNCHANGED notBui

\* the rest of handleCreateWallet: saveWallet stores the item, the
\* keypair is kept and the wallet view is shown
CreateWalletDone ==
  /\ \E p \in bui.pend :
       /\ p.kind = "create"
       /\ bui' = [bui EXCEPT
                    !.item = p.item, !.keypair = p.key, !.view = "wallet",
                    !.loading = FALSE, !.pend = @ \ {p},
                    !.last = [op |-> "createDone", overtaken |-> p.overtaken,
                              entered |-> TRUE]]
  /\ UNCHANGED notBui

\* handleUnlockWallet up to `await loadWallet(password)`: loadWallet has
\* read the item and decrypts it
UnlockWalletStart ==
  /\ bui.view = "unlock"
  /\ BuiAwaits
  /\ \E trigger \in Triggers, password \in Passwords :
       /\ Enabled(trigger)
       /\ bui' = [bui EXCEPT
                    !.error = "", !.loading = TRUE, !.started = @ + 1,
                    !.pend = @ \cup
                      {Pending("unlock",
                               IF bui.item.exists
                                 THEN loadWallet(bui.item, password)
                                 ELSE NullKeypair,
                               0, NoItem)},
                    !.last = NoLast]
  /\ UNCHANGED notBui

\* the rest of handleUnlockWallet
UnlockWalletDone ==
  /\ \E p \in bui.pend :
       /\ p.kind = "unlock"
       /\ LET entered == p.res.ok /\ p.res.value # 0 IN
          bui' = [bui EXCEPT
                    !.keypair = IF entered THEN p.res.value ELSE @,
                    !.view = IF entered THEN "wallet" ELSE @,
                    !.error = IF p.res.ok THEN @ ELSE p.res.error,
                    !.loading = FALSE, !.pend = @ \ {p},
                    !.last = [op |-> "unlockDone", overtaken |-> p.overtaken,
                              entered |-> entered]]
  /\ UNCHANGED notBui

\* handleLock
LockWallet ==
  /\ bui.view = "wallet"
  /\ BuiStarts
  /\ bui' = [bui EXCEPT !.keypair = 0, !.view = "unlock",
                        !.started = @ + 1, !.last = NoLast]
  /\ UNCHANGED notBui

\* handleDeleteWallet, from the unlock view or the wallet view; what is
\* still awaited when it completes is marked overtaken
DeleteWallet ==
  /\ bui.view \in {"unlock", "wallet"}
  /\ BuiStarts
  /\ \E accepted \in BOOLEAN :
       IF DeleteConfirmed(accepted)
         THEN bui' = [bui EXCEPT
                        !.item = NoItem, !.keypair = 0, !.view = "create",
                        !.started = @ + 1,
                        !.pend = {[p EXCEPT !.overtaken = TRUE] : p \in @},
                        !.last = [op |-> "delete", overtaken |-> FALSE,
                                  entered |-> FALSE]]
         ELSE bui' = [bui EXCEPT !.started = @ + 1, !.last = NoLast]
  /\ UNCHANGED notBui

\* the parts that are no keystore, not in use
ExtOff == fresh = FreshOff /\ reg = RegOff /\ ext = ExtractOff /\ imp = ImportOff /\ cre = CreateOff /\ vot = VoteOff /\ act = ActOff /\ lst = ListingOff /\ dis = DiscoveryOff /\ dsh = DashboardOff /\ bui = BuiltinOff
offButFresh == reg = RegOff /\ ext = ExtractOff /\ imp = ImportOff /\ cre = CreateOff /\ vot = VoteOff /\ act = ActOff /\ lst = ListingOff /\ dis = DiscoveryOff /\ dsh = DashboardOff /\ bui = BuiltinOff
offButReg == fresh = FreshOff /\ ext = ExtractOff /\ imp = ImportOff /\ cre = CreateOff /\ vot = VoteOff /\ act = ActOff /\ lst = ListingOff /\ dis = DiscoveryOff /\ dsh = DashboardOff /\ bui = BuiltinOff
offButExt == fresh = FreshOff /\ reg = RegOff /\ imp = ImportOff /\ cre = CreateOff /\ vot = VoteOff /\ act = ActOff /\ lst = ListingOff /\ dis = DiscoveryOff /\ dsh = DashboardOff /\ bui = BuiltinOff
offButImp == fresh = FreshOff /\ reg = RegOff /\ ext = ExtractOff /\ cre = CreateOff /\ vot = VoteOff /\ act = ActOff /\ lst = ListingOff /\ dis = DiscoveryOff /\ dsh = DashboardOff /\ bui = BuiltinOff
offButCre == fresh = FreshOff /\ reg = RegOff /\ ext = ExtractOff /\ imp = ImportOff /\ vot = VoteOff /\ act = ActOff /\ lst = ListingOff /\ dis = DiscoveryOff /\ dsh = DashboardOff /\ bui = BuiltinOff
offButVot == fresh = FreshOff /\ reg = RegOff /\ ext = ExtractOff /\ imp = ImportOff /\ cre = CreateOff /\ act = ActOff /\ lst = ListingOff /\ dis = DiscoveryOff /\ dsh = DashboardOff /\ bui = BuiltinOff
offButAct == fresh = FreshOff /\ reg = RegOff /\ ext = ExtractOff /\ imp = ImportOff /\ cre = CreateOff /\ vot = VoteOff /\ lst = ListingOff /\ dis = DiscoveryOff /\ dsh = DashboardOff /\ bui = BuiltinOff
offButLst == fresh = FreshOff /\ reg = RegOff /\ ext = ExtractOff /\ imp = ImportOff /\ cre = CreateOff /\ vot = VoteOff /\ act = ActOff /\ dis = DiscoveryOff /\ dsh = DashboardOff /\ bui = BuiltinOff
offButDis == fresh = FreshOff /\ reg = RegOff /\ ext = ExtractOff /\ imp = ImportOff /\ cre = CreateOff /\ vot = VoteOff /\ act = ActOff /\ lst = ListingOff /\ dsh = DashboardOff /\ bui = BuiltinOff
offButDsh == fresh = FreshOff /\ reg = RegOff /\ ext = ExtractOff /\ imp = ImportOff /\ cre = CreateOff /\ vot = VoteOff /\ act = ActOff /\ lst = ListingOff /\ dis = DiscoveryOff /\ bui = BuiltinOff
offButBui == fresh = FreshOff /\ reg = RegOff /\ ext = ExtractOff /\ imp = ImportOff /\ cre = CreateOff /\ vot = VoteOff /\ act = ActOff /\ lst = ListingOff /\ dis = DiscoveryOff /\ dsh = DashboardOff

\* the random bytes an earlier run drew
EarlierBytes(n) == [i \in 1..n |-> [raw |-> 0]]

\* The keystore starts with no wallet, or with the wallet an earlier
\* createWallet has stored.
FilesInit ==
  /\ \/ /\ walletFile = NoFile
        /\ indexFile = {}
        /\ nextKey = 0
        /\ createdWith = <<>>
     \/ \E name \in Names, password \in Passwords :
          /\ ~WeakPassword(password)
          /\ walletFile = NewWalletData(name, password, 1, EarlierBytes(SALT_LENGTH),
                                        EarlierBytes(IV_LENGTH))
          /\ indexFile = {WALLET_KEY}
          /\ nextKey = 1
          /\ createdWith = password
  /\ backups = {}
  /\ procs = [p \in Procs |-> IdleProc]
  /\ opsStarted = 0
  /\ last = [n |-> 0, entry |-> "idle", password |-> <<>>, flag |-> FALSE,
             res |-> NoRes, out |-> NoOut]
  /\ ExtOff

\* a run of the file keystore
StoreInit == FilesInit /\ web = Unmounted

\* a browser session: the component mounts on an empty localStorage or on
\* one that holds a wallet saved earlier
WebInit ==
  /\ FilesInit /\ ~walletFile.exists
  /\ \/ web = Mounted(NoItem, <<>>, 0)
     \/ \E password \in Passwords :
          /\ Len(password) >= 8
          /\ web = Mounted(saveWallet(1, password, EarlierBytes(SALT_LENGTH),
                                      EarlierBytes(IV_LENGTH)),
                           password, 1)

Next ==
  \/ HandleCreateWallet
  \/ HandleUnlockWallet
  \/ HandleLock
  \/ HandleDeleteWallet
  \/ \E p \in Procs :
    \/ StartCreateWallet(p)
    \/ StartUnlockWallet(p)
    \/ StartGetKeypair(p)
    \/ StartDeleteWallet(p)
    \/ StartCmdCreate(p)
    \/ StartCmdUnlock(p)
    \/ StartCmdDelete(p)
    \/ StartCmdBackup(p)
    \/ StartCmdStatus(p)
    \/ StartCmdAddress(p)
    \/ CheckStatusGet(p)
    \/ GetAddressGet(p)
    \/ DeleteWalletGet(p)
    \/ DeleteWalletRemove(p)
    \/ CreateWalletGet(p)
    \/ CreateWalletSet(p)
    \/ UnlockWalletGet(p)
    \/ GetKeypairGet(p)
    \/ BackupCopy(p)

CipherOff == [pc |-> "off", impl |-> "none", M |-> <<>>, P |-> <<>>, Q |-> <<>>,
              blob |-> NoBlob, out |-> NoResult]

Init == (StoreInit \/ WebInit) /\ ciph = CipherOff

Spec == Init /\ [][Next]_vars

\* the ciphers alone
InitCipher ==
  /\ ciph \in CipherInputs
  /\ StoreInit /\ ~walletFile.exists

SpecCipher == InitCipher /\ [][CipherNext]_vars

\* unlocking after a wallet file was put back by hand
NextRestore ==
  \/ RestoreWalletFile
  \/ \E p \in Procs :
       \/ StartUnlockWallet(p)
       \/ UnlockWalletGet(p)
       \/ StartGetKeypair(p)
       \/ GetKeypairGet(p)

InitRestore == StoreInit /\ ciph = CipherOff

SpecRestore == InitRestore /\ [][NextRestore]_vars

\* ------------------------------------------------------------------------
\* Claims
\* ------------------------------------------------------------------------

\* C1: in every interleaving of creates, a persisted identity is never
\* replaced by another create: while a wallet is stored, the stored wallet
\* changes only by being removed.
C1_NeverReplaced ==
  [][walletFile.exists /\ walletFile'.exists => walletFile' = walletFile]_vars

\* p takes a step
Steps(p) == procs'[p] # procs[p]
\* an operation ends in this step
Ends == last'.n # last.n

\* C2: createWallet, called with a password of at least 8 characters while
\* an identity is persisted, throws WalletExistsError and leaves what is
\* stored unchanged; the create-wallet command, given a name and a password
\* but not --force, reports WALLET_EXISTS and changes nothing.
C2_ExistingKept ==
  [][\A p \in Procs :
       /\ ( /\ procs[p].pc = "cw_get" /\ walletFile.exists /\ Steps(p) )
          => /\ Ends /\ last'.res.error = "WalletExistsError"
             /\ last'.entry = "cmdCreate" => last'.out.code = "WALLET_EXISTS"
             /\ UNCHANGED <<walletFile, indexFile, backups>>
       /\ ( /\ procs[p].pc = "cs_get" /\ procs[p].entry = "cmdCreate"
            /\ ~procs[p].flag /\ walletFile.exists /\ Steps(p) )
          => /\ Ends /\ last'.out.code = "WALLET_EXISTS" /\ ~last'.out.success
             /\ UNCHANGED <<walletFile, indexFile, backups>>
    ]_vars

C2_Witness ==
  /\ last.entry = "createWallet" /\ ~WeakPassword(last.password)
  /\ last.res.error = "WalletExistsError"
  /\ walletFile.exists /\ nextKey = 1

\* C3: creating a wallet with a password shorter than 8 characters fails
\* with WeakPasswordError and leaves the persisted state as it was, through
\* createWallet and through the create-wallet command with or without
\* --force: no step of such a call changes the stored wallet, and the call
\* does not end in success.
C3_WeakPasswordChangesNothing ==
  [][\A p \in Procs :
       ( /\ procs[p].entry \in {"createWallet", "cmdCreate"}
         /\ WeakPassword(procs[p].password) /\ Steps(p) )
       => /\ walletFile' = walletFile
          /\ Ends => ~last'.res.ok /\ ~last'.out.success
    ]_vars

\* C4: while the wallet created with password P is stored, unlock(Q)
\* succeeds iff Q = P, for every string Q; a success returns the stored
\* address, a failure is InvalidPasswordError.
C4_UnlockIffSamePassword ==
  [][( /\ Ends /\ last'.entry \in {"unlockWallet", "cmdUnlock"}
       /\ walletFile.exists )
     => /\ last'.password = createdWith
           => /\ last'.res.ok /\ last'.res.address = walletFile.publicKey
              /\ last'.entry = "cmdUnlock"
                   => last'.out.success /\ last'.out.address = walletFile.publicKey
        /\ last'.password # createdWith
           => /\ ~last'.res.ok /\ ~last'.out.success
              /\ last'.entry = "unlockWallet"
                   => last'.res.error = "InvalidPasswordError"
              /\ last'.entry = "cmdUnlock"
                   => last'.out.code = "INVALID_PASSWORD"
    ]_vars

\* C5: deleteWallet takes no password; with nothing stored it throws
\* NoWalletError and changes nothing; otherwise it removes the identity, and
\* while nothing is stored status reports exists:false and unlock,
\* getKeypair, getAddress and delete fail with NoWalletError.
C5_DeleteRemoves ==
  [][\A p \in Procs :
       /\ ( /\ procs[p].pc \in {"dw_get", "uw_get", "gk_get", "ga_get"}
            /\ ~walletFile.exists /\ Steps(p) )
          => /\ Ends /\ last'.res.error = "NoWalletError"
             /\ UNCHANGED <<walletFile, indexFile, backups>>
       /\ ( /\ procs[p].pc = "cs_get" /\ procs[p].entry = "cmdStatus"
            /\ ~walletFile.exists /\ Steps(p) )
          => /\ Ends /\ last'.out.success /\ ~last'.out.exists
       /\ ( procs[p].pc = "dw_remove" /\ Steps(p) )
          => /\ ~walletFile'.exists
             /\ procs[p].entry = "deleteWallet" => Ends /\ last'.res.ok
    ]_vars

C5_Witness ==
  /\ ~walletFile.exists /\ nextKey = 1
  /\ last.entry = "unlockWallet" /\ last.res.error = "NoWalletError"

\* hay has needle as a contiguous part
StartsAt(hay, i, needle) ==
  /\ i + Len(needle) - 1 <= Len(hay)
  /\ \A j \in 1..Len(needle) : hay[i + j - 1] = needle[j]

Contains(hay, needle) == \E i \in 1..Len(hay) : StartsAt(hay, i, needle)

RawBytes(bytes) == [i \in 1..Len(bytes) |-> [raw |-> bytes[i]]]

\* the texts a secret key is written as, and the passwords that can create
SecretTexts ==
  UNION {{JsonStringify(SecretKeyBytes(k)), secretKeyToBase58(SecretKeyBytes(k))} :
         k \in KeyIds}
StrongPasswords == {pw \in Passwords : ~WeakPassword(pw)}

\* what must not show in a stored text field, and in stored bytes
TextNeedles == SecretTexts \cup StrongPasswords
ByteNeedles ==
  {RawBytes(Utf8Encode(t)) : t \in TextNeedles}
    \cup {RawBytes(SecretKeyBytes(k)) : k \in KeyIds}

FirstBytes == {b[1] : b \in ByteNeedles}

TextClean(field) == \A t \in TextNeedles : ~Contains(field, t)
BytesClean(bytes) ==
  \A i \in 1..Len(bytes) :
    bytes[i] \in FirstBytes => \A b \in ByteNeedles : ~StartsAt(bytes, i, b)

StoredWallets == (IF walletFile.exists THEN {walletFile} ELSE {}) \cup backups

SecretStrings == {secretKeyToBase58(SecretKeyBytes(k)) : k \in KeyIds}
HasSecret(out) == out.secretKey # <<>> \/ out.address \in SecretStrings

C7_SecretOnlyOnExport ==
  /\ HasSecret(last.out)
       => /\ last.res.fn = "unlockWallet" /\ last.res.ok
          /\ last.out.warning
          /\ last.entry \in {"cmdUnlock", "cmdBackup"}
  /\ last.entry = "cmdUnlock" /\ last.out.success
       => (HasSecret(last.out) <=> last.flag)
  /\ last.entry \in {"cmdCreate", "cmdStatus", "cmdAddress", "cmdDelete"}
       => ~HasSecret(last.out)

C7_Witness ==
  /\ last.entry = "cmdUnlock" /\ last.flag /\ last.out.success
  /\ last.out.secretKey \in SecretStrings /\ last.out.warning

\* C8: when the stored blob decrypts authentically under the given
\* password but its plaintext is no valid secret key, unlockWallet and
\* getKeypair report an error other than InvalidPasswordError.
C8_CorruptedDistinct ==
  [][\A p \in Procs :
       ( /\ procs[p].pc \in {"uw_get", "gk_get"} /\ Steps(p)
         /\ walletFile.exists
         /\ decrypt(walletFile.encryptedSecretKey, procs[p].password).ok
         /\ ~DecodeSecret(walletFile.encryptedSecretKey, procs[p].password).ok )
       => /\ Ends /\ ~last'.res.ok
          /\ last'.res.error # "InvalidPasswordError"
    ]_vars

\* C9: decrypt(encrypt(M, P), P) = M for every password P and every
\* plaintext M, in the Node cipher and in the browser cipher.
C9_RoundTrip ==
  ciph.pc = "done" /\ ciph.Q = ciph.P
    => ciph.out.ok /\ ciph.out.value = ciph.M

\* C10: for passwords P1 # P2, decrypt(encrypt(M, P1), P2) fails and never
\* returns a plaintext, in the Node cipher and in the browser cipher.
C10_WrongPasswordFails ==
  ciph.pc = "done" /\ ciph.Q # ciph.P => ~ciph.out.ok

\* ------------------------------------------------------------------------
\* The parts that are no keystore, each on its own
\* ------------------------------------------------------------------------
\* the keystore, the browser wallet and the single cipher calls not in use
KeystoreOff ==
  /\ walletFile = NoFile /\ indexFile = {} /\ nextKey = 0 /\ createdWith = <<>>
  /\ backups = {}
  /\ procs = [p \in Procs |-> IdleProc]
  /\ opsStarted = 0
  /\ last = [n |-> 0, entry |-> "idle", password |-> <<>>, flag |-> FALSE,
             res |-> NoRes, out |-> NoOut]
  /\ web = Unmounted
  /\ ciph = CipherOff

InitFresh == KeystoreOff /\ offButFresh /\ fresh = FreshOff

NextFresh == FreshEncrypt \/ FreshWebEncrypt

SpecFresh == InitFresh /\ [][NextFresh]_vars

\* C11: every encrypt call draws its own salt and its own IV from the random
\* source, so in a sequence of encrypt calls on a random source that never
\* returns the same bytes twice no two calls, even with the same password
\* and plaintext, return the same blob or use the same (salt, IV) pair.
C11_FreshSaltAndIv ==
  \A i \in 1..Len(fresh.calls), j \in 1..Len(fresh.calls) :
    i # j => /\ fresh.calls[i].blob # fresh.calls[j].blob
             /\ <<fresh.calls[i].salt, fresh.calls[i].iv>>
                  # <<fresh.calls[j].salt, fresh.calls[j].iv>>

C11_Witness ==
  /\ Len(fresh.calls) >= 2
  /\ fresh.calls[1].impl = fresh.calls[2].impl
  /\ fresh.calls[1].data = fresh.calls[2].data
  /\ fresh.calls[1].password = fresh.calls[2].password

\* ---------------------------------------------------------------------
\* The vault registry, in the browser or under Node

InitRegistry ==
  /\ KeystoreOff
  /\ offButReg
  /\ \E platform \in Platforms : reg = [RegOff EXCEPT !.platform = platform]

NextRegistry ==
  \/ CallSync
  \/ \E t \in Tasks :
       \/ IssueAsync(t)
       \/ ReadFile(t)
       \/ WriteFile(t)
       \/ Continuation(t)

SpecRegistry == InitRegistry /\ [][NextRegistry]_vars

\* the sync call m is made in this step
SyncStep(m) ==
  /\ reg'.issued = reg.issued + 1
  /\ reg'.batch.ops[Len(reg'.batch.ops)] = m

\* the async call of task t ends in this step
EndsIn(t) == reg.tasks[t].pc # "idle" /\ reg'.tasks[t].pc = "idle"

\* the async register call of task t ends in this step, having read a
\* registry that lists its vault for its owner
RegisterOfListedEnds(t) ==
  /\ EndsIn(t)
  /\ reg.tasks[t].m.op = "register"
  /\ \/ /\ reg.tasks[t].pc = "cont"
        /\ Listed(reg.tasks[t].data, reg.tasks[t].m.owner, reg.tasks[t].m.vault)
     \/ /\ reg.tasks[t].pc = "read"
        /\ Listed(reg.stored, reg.tasks[t].m.owner, reg.tasks[t].m.vault)

NoDuplicates(data) ==
  \A o \in Owners :
    \A i \in 1..Len(ListOf(data, o)), j \in 1..Len(ListOf(data, o)) :
      ListOf(data, o)[i].multisigPda = ListOf(data, o)[j].multisigPda => i = j

\* C12: whatever register and remove calls were made, an owner's list holds
\* at most one entry per vault address; and a register call that finds the
\* vault already listed for the owner ends without error and changes
\* nothing stored, so the entry stored first, createKey included, stays.
C12_OneEntryPerVault ==
  /\ [](NoDuplicates(reg.stored))
  /\ [][/\ \A t \in Tasks :
            RegisterOfListedEnds(t) => reg'.stored = reg.stored
        /\ \A o \in Owners, v \in VaultAddresses, k \in CreateKeys :
            (SyncStep(Register("sync", o, v, k)) /\ Listed(reg.stored, o, v))
              => reg'.stored = reg.stored]_vars

C12_Witness ==
  /\ reg.issued >= 2
  /\ AllIdle
  /\ Len(reg.batch.ops) = 1
  /\ reg.batch.ops[1].op = "register"
  /\ Listed(reg.batch.base, reg.batch.ops[1].owner, reg.batch.ops[1].vault)
  /\ reg.stored = reg.batch.base
  /\ \E i \in 1..Len(ListOf(reg.stored, reg.batch.ops[1].owner)) :
       /\ ListOf(reg.stored, reg.batch.ops[1].owner)[i].multisigPda
            = reg.batch.ops[1].vault
       /\ ListOf(reg.stored, reg.batch.ops[1].owner)[i].createKey
            # reg.batch.ops[1].createKey

\* what getStoredMultisigs(Async) returns for each owner
Lists(data) == [o \in Owners |-> ListOf(data, o)]

\* the lists after remove(o, v) took exactly v's entry out of o's list
ListsWithout(data, o, v) ==
  [q \in Owners |->
     IF q = o THEN SelectSeq(ListOf(data, q), LAMBDA e : e.multisigPda # v)
              ELSE ListOf(data, q)]

\* C13: a remove(o, v) call takes exactly the entry for v out of o's list:
\* when the call ends, the stored lists are the lists stored just before
\* with that entry gone, so o's other entries and every other owner's list
\* are as they were, and removing a vault that is not listed changes nothing.
C13_RemoveExact ==
  [][/\ \A t \in Tasks :
         (EndsIn(t) /\ reg.tasks[t].m.op = "remove")
           => Lists(reg'.stored)
                = ListsWithout(reg.stored, reg.tasks[t].m.owner,
                               reg.tasks[t].m.vault)
     /\ \A o \in Owners, v \in VaultAddresses :
         SyncStep(Remove("sync", o, v))
           => Lists(reg'.stored) = ListsWithout(reg.stored, o, v)]_vars

\* what can be stored after the calls ops[i], i in left, ran one after the
\* other in some order
RECURSIVE SerialOutcomes(_, _, _, _)
SerialOutcomes(platform, data, ops, left) ==
  IF left = {}
    THEN {Lists(data)}
    ELSE UNION {SerialOutcomes(platform, Apply(platform, data, ops[i]), ops,
                               left \ {i}) : i \in left}

\* C14: the async register and remove calls are atomic within one process:
\* once the calls that were in flight together have all ended, the stored
\* lists are what running those calls one after the other, in some order,
\* leaves, so no call that ended is lost.
C14_AsyncAtomic ==
  (AllIdle /\ \A i \in 1..Len(reg.batch.ops) : reg.batch.ops[i].api = "async")
    => Lists(reg.stored)
         \in SerialOutcomes(reg.platform, reg.batch.base, reg.batch.ops,
                             1..Len(reg.batch.ops))

\* ---------------------------------------------------------------------
\* extractVaultAddress called on one input

InitExtract == KeystoreOff /\ offButExt /\ ext = ExtractOff

NextExtract ==
  \/ ExtractInImportVault
  \/ ExtractInMyVaults
  \/ ExtractInExternalVaults

SpecExtract == InitExtract /\ [][NextExtract]_vars

\* the address an input holds: its segment, where that is a base58 string of
\* 32 to 44 characters
HeldAddress(x) ==
  IF IsBareAddress(x.segment) THEN Address(x.segment) ELSE NoAddress

\* C16: extractVaultAddress returns A exactly when the trimmed input is A
\* or a link whose whole path segment after /vault/ is A, A being a base58
\* string of 32 to 44 characters; so it returns v for getVaultShareLink(v)
\* and getProposalShareLink(v, i), and null for every other input.
C16_ExtractExact ==
  ext.called => ext.result = HeldAddress(ext.x)

\* ---------------------------------------------------------------------
\* Imports of vaults, one after the other

InitImport == KeystoreOff /\ offButImp /\ imp = ImportOff

NextImport ==
  \/ ImportVaultCommand
  \/ MyVaultsImport
  \/ ExternalImportVault

SpecImport == InitImport /\ [][NextImport]_vars

\* C15: an import adds the vault to the owner's list exactly when an address
\* is taken from the input, the vault is found on chain and the owner is
\* among its members; a vault that is not found gives the not-found
\* outcome, an owner who is no member the not-a-member outcome, and every
\* import that fails leaves what is stored as it was.
C15_ImportIff ==
  imp.runs > 0 =>
    LET l == imp.last
        extracted == ExtractedFrom[l.input]
        succeeded == l.outcome \in {Imported, AlreadyImported}
    IN /\ succeeded <=> (extracted.found /\ l.lookup.found
                           /\ l.owner \in l.lookup.members)
       /\ succeeded =>
            /\ Listed(imp.stored, l.owner, extracted.address)
            /\ \A o \in Owners :
                 LET old == ListOf(l.before, o)
                     new == ListOf(imp.stored, o)
                 IN \/ new = old
                    \/ /\ o = l.owner
                       /\ ~Listed(l.before, o, extracted.address)
                       /\ new = Append(old, StoredMultisig(extracted.address,
                                                           l.lookup.createKey))
       /\ ~succeeded => imp.stored = l.before
       /\ (l.owner # NoOwner /\ extracted.found
             /\ extracted.address \in PublicKeyInputs /\ ~l.lookup.found)
            => l.outcome \in NotFoundOutcomes
       /\ (l.owner # NoOwner /\ l.lookup.found
             /\ l.owner \notin l.lookup.members)
            => l.outcome \in NotAMemberOutcomes

C15_Witness ==
  /\ imp.runs = 2
  /\ imp.last.outcome = "NOT_A_MEMBER"
  /\ imp.last.before # EmptyData
  /\ imp.stored = imp.last.before

\* ---------------------------------------------------------------------
\* Creation of a vault in one of the three front ends

InitCreate ==
  /\ KeystoreOff
  /\ offButCre
  /\ cre \in {FormOf("CreateVault", TRUE), FormOf("ExternalCreateVault", TRUE),
               FormOf("ExternalCreateVault", FALSE),
               [CreateOff EXCEPT !.frontEnd = "create-multisig"]}

NextCreate ==
  \/ addMember
  \/ removeMember
  \/ updateMemberAddress
  \/ updateMemberPermission
  \/ setThreshold
  \/ CreateVaultHandleCreate
  \/ ExternalCreateVaultHandleCreate
  \/ CreateMultisigCommand

SpecCreate == InitCreate /\ [][NextCreate]_vars

InvalidThresholdErrors ==
  {"Threshold cannot exceed number of voters",
   "Threshold must be between 1 and the number of voters", "INVALID_THRESHOLD"}

\* the errors of the checks that come before the threshold's
EarlierErrors ==
  {"Address is required", "Invalid Solana address",
   "Must have at least one permission",
   "Duplicate member addresses are not allowed",
   "Please connect your wallet first", "All member addresses are required",
   "Invalid address", "PASSWORD_REQUIRED", "CREATE_FAILED",
   "INVALID_MEMBER_ADDRESS"}

\* the threshold asked for is a number from 1 to the number of voters
InRange(asked, members) ==
  ~asked.nan /\ asked.n >= 1 /\ asked.n <= votersCount(members)

\* C17: in each front end, whatever edits came before, a creation is
\* submitted only with 1 <= threshold <= number of members with vote
\* permission; a threshold given outside that range is refused with the
\* invalid-threshold error (unless an earlier check already refused the
\* attempt) and nothing is submitted.
C17_ThresholdInRange ==
  cre.last.made =>
    /\ cre.last.submitted.sent =>
         InRange(Number(cre.last.submitted.threshold),
                 cre.last.submitted.members)
    /\ (~cre.last.asked.nan /\ ~InRange(cre.last.asked, cre.last.members))
         => /\ ~cre.last.submitted.sent
            /\ cre.last.error \in InvalidThresholdErrors \cup EarlierErrors

\* C18: a creation is submitted only if no address is repeated in the
\* member list and every member has at least one of the three permissions;
\* otherwise it is refused before anything is submitted.
C18_MembersValid ==
  cre.last.submitted.sent =>
    /\ ~HasDuplicates(cre.last.submitted.members)
    /\ \A i \in 1..Len(cre.last.submitted.members) :
         LET m == cre.last.submitted.members[i]
         IN m.initiate \/ m.vote \/ m.execute

\* ---------------------------------------------------------------------
\* One proposal, fetched and voted on

InitProposal ==
  /\ KeystoreOff
  /\ offButVot
  /\ \E account \in ProposalAccounts, role \in UserRoles :
       vot = [VoteOff EXCEPT !.account = account, !.role = role]

NextProposal ==
  \/ FetchProposal
  \/ VaultDetailVote
  \/ ExternalVaultDetailVote
  \/ ApproveProposalCommand

SpecProposal == InitProposal /\ [][NextProposal]_vars

\* C19: getProposalStatus gives each raw status of the six names the
\* logical status of the same name, and for a raw status that is none of
\* the six it fails as unknown and reports none of the six statuses.
C19_StatusMapped ==
  (vot.fetched /\ vot.account.exists) =>
    IF vot.account.kind \in LogicalStatuses
      THEN vot.info.found /\ vot.info.status = vot.account.kind
      ELSE ~vot.info.found \/ vot.info.status \notin LogicalStatuses

\* C20: an approve or reject of the user is submitted only for a proposal
\* that is Active, by a user with the vote permission whose address is in
\* neither the approvals nor the rejections; otherwise nothing is
\* submitted.
C20_VoteGuard ==
  vot.last.submitted =>
    /\ vot.account.exists
    /\ vot.account.kind = "Active"
    /\ vot.role = "vote"
    /\ User \notin vot.account.approved
    /\ User \notin vot.account.rejected

\* ---------------------------------------------------------------------
\* One operation on a vault, after the vault page was or was not loaded

InitAction ==
  /\ KeystoreOff
  /\ offButAct
  /\ \E chain \in ChainVaults : act = [ActOff EXCEPT !.chain = chain]

NextAction ==
  \/ LoadVaultDetail
  \/ OtherMemberActs
  \/ VaultDetailHandle
  \/ ExternalVaultDetailHandle
  \/ VaultDetailCreateTransfer
  \/ ExternalCreateTransfer
  \/ ApproveCommand
  \/ ExecuteProposalCommand
  \/ CreateProposalCommand

SpecAction == InitAction /\ [][NextAction]_vars

\* C21: an execute is handed to a chain writer only for a proposal seen as
\* Approved and a user with the execute permission, whoever created the
\* proposal; in every other case nothing is submitted.
C21_ExecuteGuard ==
  (act.last.kind = "execute" /\ act.last.submitted) =>
    /\ act.last.seen.found
    /\ act.last.seen.status = "Approved"
    /\ "execute" \in act.chain.perms

\* C22: a transfer proposal is handed to a chain writer only for a signer
\* who is a member of the vault with the initiate permission.
C22_ProposeGuard ==
  (act.last.kind = "propose" /\ act.last.submitted) =>
    /\ act.chain.exists
    /\ act.chain.member
    /\ "initiate" \in act.chain.perms

\* C28: for approve, reject and execute, the status and the votes the
\* decision to submit rests on are those of the proposal account on chain
\* during the operation, not those of a snapshot loaded earlier.
C28_FetchedInOperation ==
  [][(/\ ~act.last.submitted
      /\ act'.last.submitted
      /\ act'.last.kind \in ProposalActs)
       => act'.last.seen = getProposalStatus(act.chain.proposal)]_vars

\* C29: an operation reports success, and the page is loaded again, only
\* when its transaction was confirmed without error; a confirmation that
\* reports a failed transaction is a failed operation.
C29_SuccessAfterConfirmed ==
  /\ act.last.success => act.last.tx = "confirmedOk"
  /\ act.last.refreshed => act.last.tx = "confirmedOk"
  /\ (act.last.submitted /\ act.last.tx # "confirmedOk") => act.last.error # ""

\* ---------------------------------------------------------------------
\* Listings of the proposals of a vault

InitListing ==
  /\ KeystoreOff
  /\ offButLst
  /\ \E found \in BOOLEAN, T \in 0 .. MaxIndex :
       \E missing \in SUBSET EdgeIndexes(T) :
         /\ found \/ (T = 0 /\ missing = {})
         /\ lst = [ListingOff EXCEPT !.vaultFound = found, !.T = T,
                                     !.missing = missing]

NextListing ==
  \/ GetProposalsCall
  \/ ProposalCreated

SpecListing == InitListing /\ [][NextListing]_vars

\* the indices of a listing
Listed23 == {lst.proposals[k] : k \in 1 .. Len(lst.proposals)}

\* C23: with T the current transaction index of a vault that was found,
\* getProposals returns exactly the proposals that load among the indices
\* max(1, T-19) .. T, most recent first: at most 20 entries, strictly
\* descending, none below 1 or above T, none for T = 0.
C23_RecentWindow ==
  (lst.called /\ lst.vaultFound) =>
    /\ Listed23 =
         {i \in 1 .. lst.T : i >= lst.T - 19 /\ i \notin lst.missing}
    /\ Len(lst.proposals) <= 20
    /\ \A k \in 1 .. Len(lst.proposals) - 1 :
         lst.proposals[k] > lst.proposals[k + 1]
    /\ lst.T = 0 => lst.proposals = <<>>

C23_Witness ==
  /\ lst.called
  /\ lst.vaultFound
  /\ lst.T = 22
  /\ lst.missing = {2, 3, 21}
  /\ Len(lst.proposals) = 18
  /\ lst.proposals[1] = 22
  /\ lst.proposals[18] = 4

\* ---------------------------------------------------------------------
\* Discovery scans over the accounts of the multisig program

InitDiscovery ==
  /\ KeystoreOff
  /\ offButDis
  /\ \E accounts \in AccountLists(MaxAccounts) :
       dis = [DiscoveryOff EXCEPT !.accounts = accounts]

NextDiscovery == DiscoverCall

SpecDiscovery == InitDiscovery /\ [][NextDiscovery]_vars

\* C24: a scan that went through returns exactly the accounts of the
\* program that parse as a multisig and list the owner as a member,
\* whatever their data size, and no other account; accounts that do not
\* parse are skipped.
C24_DiscoverExact ==
  (dis.called /\ ~dis.scanThrows) =>
    {dis.vaults[k] : k \in 1 .. Len(dis.vaults)}
      = {i \in 1 .. Len(dis.accounts) :
           dis.accounts[i].parses /\ dis.member \in dis.accounts[i].members}

\* ---------------------------------------------------------------------
\* C25: every removal of the persisted wallet by deleteWallet happens in a
\* command that was given its flag (--confirm for delete-wallet, --force
\* for create-wallet) or in a handleDeleteWallet whose dialog was accepted;
\* a command without its flag never reaches deleteWallet, and a declined
\* dialog leaves the stored wallet in place.
C25_RemovalConfirmed ==
  /\ [](\A p \in Procs :
          (procs[p].entry \in Commands /\ procs[p].pc \in {"dw_get", "dw_remove"})
            => procs[p].flag)
  /\ [][/\ (walletFile.exists /\ ~walletFile'.exists)
            => \E p \in Procs :
                 /\ procs[p].pc = "dw_remove"
                 /\ procs'[p].pc # "dw_remove"
                 /\ procs[p].entry \in Commands => procs[p].flag
        /\ (web.item.exists /\ ~web'.item.exists) => web'.confirmed]_vars

C25_Witness ==
  \/ /\ last.entry = "cmdCreate" /\ last.flag /\ last.out.success
     /\ walletFile.exists /\ nextKey = 2
  \/ /\ web.view = "create" /\ web.confirmed /\ ~web.item.exists
     /\ web.keys = 1

\* C26: a vault is put on the creator's list by a creation only when it
\* exists on chain and the creator is one of the members it was created
\* with, whatever edits of the member list came before.
C26_ListedVaultOfOwner ==
  cre.last.registered =>
    /\ cre.last.tx = "confirmedOk"
    /\ \E i \in 1..Len(cre.last.submitted.members) :
         cre.last.submitted.members[i].address = CreatorAddress

\* ---------------------------------------------------------------------
\* The dashboard of a connected wallet

\* the lists a wallet can have stored when the dashboard mounts
StoredLists ==
  {EmptyData} \cup
  {[EmptyData EXCEPT ![DashOwner] =
      [has |-> TRUE, list |-> <<StoredMultisig(v, ChainCreateKey)>>]] :
     v \in VaultAddresses}

InitDashboard ==
  /\ KeystoreOff
  /\ offButDsh
  /\ \E memberOf \in SUBSET VaultAddresses, stored \in StoredLists :
       /\ KnownAddresses(stored) \subseteq memberOf
       /\ dsh = [DashboardOff EXCEPT !.mounted = TRUE, !.memberOf = memberOf,
                                     !.stored = stored, !.refresh = TRUE]

NextDashboard ==
  \/ LoadVaultsStart
  \/ LoadVaultsEnd
  \/ HandleRemoveVault
  \/ DashboardImportVault
  \/ OpenVaultPage

SpecDashboard == InitDashboard /\ [][NextDashboard]_vars

\* C27: a vault the user removed from the list stays off the stored list
\* until the user imports it again; no refresh of the list, no scan and
\* no opening of a page puts it back.
C27_RemovedStaysRemoved ==
  \A v \in dsh.removed : ~Listed(dsh.stored, DashOwner, v)

\* ---------------------------------------------------------------------
\* The built-in wallet UI with its awaits

InitBuiltin ==
  /\ KeystoreOff
  /\ offButBui
  /\ \/ bui = [BuiltinOff EXCEPT !.view = "create"]
     \/ \E password \in Passwords :
          /\ Len(password) >= 8
          /\ bui = [BuiltinOff EXCEPT
                      !.view = "unlock", !.keys = 1,
                      !.item = saveWallet(1, password,
                                          EarlierBytes(SALT_LENGTH),
                                          EarlierBytes(IV_LENGTH))]

NextBuiltin ==
  \/ CreateWalletStart
  \/ CreateWalletDone
  \/ UnlockWalletStart
  \/ UnlockWalletDone
  \/ LockWallet
  \/ DeleteWallet

SpecBuiltin == InitBuiltin /\ [][NextBuiltin]_vars

\* the stored item is the encrypted wallet of keypair k
PersistedOf(item, k) ==
  item.exists /\ \E password \in Passwords : loadWallet(item, password) = Ok(k)

\* C30: in every interleaving of the user's actions with pending create
\* and unlock operations, the wallet view holds a keypair only while the
\* encrypted wallet of that keypair is stored, and an unlock that was
\* pending when Delete Wallet completed does not open the wallet view.
C30_UnlockedOnlyWhilePersisted ==
  /\ (bui.view = "wallet" /\ bui.keypair # 0)
       => PersistedOf(bui.item, bui.keypair)
  /\ ~(bui.last.op = "unlockDone" /\ bui.last.overtaken /\ bui.last.entered)

====
